---- MODULE Spec2Model ----
(***************************************************************************)
(* go-ruby-redis-ring: the Ruby-compatible hash ring of                    *)
(* cmd/go-ring-custom (rubyHashRing), the go-redis ConsistentHash override *)
(* of cmd/go-ring-consistenthash (rubyStyleHash) and the reference         *)
(* Redis::HashRing of redis-rb that scripts/ruby_ring.rb drives.           *)
(*                                                                         *)
(* A uint32 is the pair <<hi, lo>> of its 16-bit halves (hi * 2^16 + lo),  *)
(* ordered as the unsigned 32-bit value: the values of the ring need the   *)
(* full 32-bit width. A Go slice index i is position i + 1 of a sequence.  *)
(* A *node (Go) or a node object (Ruby) is its position in the nodes list, *)
(* 1-based; 0 is nil.                                                      *)
(***************************************************************************)
EXTENDS Integers, Sequences, FiniteSets, TLC

VARIABLES prog, configs, replicas, md5, status, r, h, rb, returned, shards,
          hashed, g, rr, intSize, call, closed, out

\* The state of the three routers' processes, and what each lookup hashed.
vars == <<prog, configs, replicas, md5, status, r, h, rb, returned, shards,
          hashed, g, rr, intSize, call, closed, out>>

\* The state the three routers' lookup loops never touch: the goroutines of
\* concurrent lookups, the replica-aware ring with the width of int and its
\* last call, the Close() calls of main's deferred teardown, a hashed digest.
others == <<g, rr, intSize, call, closed, out>>

\* Longest node list handed to a constructor.
MaxNodes == 2

\* Largest replica count handed to a constructor.
MaxReplicas == 2

\* The three routers of the experiment, one per process.
Programs == {"go-ring-custom", "go-ring-consistenthash", "ruby_ring"}

\* Shard names of the experiment (a node list may repeat a name).
Names == {"cache-a", "cache-b"}

\* Addr of the shardConfig of each name.
AddrOf(name) == IF name = "cache-a" THEN "127.0.0.1:6381" ELSE "127.0.0.1:6382"

\* Replica counts handed to a constructor: invalid ones (< 1) included.
ReplicaCounts == (0 - 1)..MaxReplicas

\* nil *node / nil node object.
Nil == 0

\* Keys of the corpus, as byte sequences: "{t}a", "t", "{t}b".
Keys == { <<123, 116, 125, 97>>, <<116>>, <<123, 116, 125, 98>> }

\* A key of the corpus whose CRC-32 is odd and above 2^31: "a" (0xe8b7be43).
MoreKeys == { <<97>> }

\* MD5 digests (16 bytes) a virtual key can have. The first four bytes are
\* 0x00000100, 0x856a5aa8 (= CRC-32 of "t") and 0xffffffff.
Digests ==
  { <<0, 0, 1, 0, 11, 12, 13, 14, 15, 16, 17, 18, 19, 20, 21, 22>>,
    <<133, 106, 90, 168, 31, 32, 33, 34, 35, 36, 37, 38, 39, 40, 41, 42>>,
    <<255, 255, 255, 255, 51, 52, 53, 54, 55, 56, 57, 58, 59, 60, 61, 62>> }

-----------------------------------------------------------------------------
(* uint32 arithmetic *)

\* a < b on uint32.
U32Less(a, b) == a[1] < b[1] \/ (a[1] = b[1] /\ a[2] < b[2])

\* a > b on uint32.
U32Greater(a, b) == U32Less(b, a)

\* a >= b on uint32.
U32GreaterEq(a, b) == ~U32Less(a, b)

\* Bitwise exclusive or of two 16-bit naturals, bit by bit.
Xor16(a, b) ==
  LET B(w) == (((a \div w) + (b \div w)) % 2) * w
  IN  B(1) + B(2) + B(4) + B(8) + B(16) + B(32) + B(64) + B(128) + B(256) + B(512)
      + B(1024) + B(2048) + B(4096) + B(8192) + B(16384) + B(32768)

\* a ^ b on uint32.
U32Xor(a, b) == <<Xor16(a[1], b[1]), Xor16(a[2], b[2])>>

\* a >> 1 on uint32.
U32Shr1(a) == <<a[1] \div 2, (a[2] \div 2) + (a[1] % 2) * 32768>>

-----------------------------------------------------------------------------
(* hash/crc32 *)

\* crc32.IEEE, the polynomial, reflected: 0xedb88320.
IEEE == <<60856, 33568>>

\* One step of the bitwise CRC over the register crc.
crcBit(crc) == IF crc[2] % 2 = 1 THEN U32Xor(U32Shr1(crc), IEEE) ELSE U32Shr1(crc)

\* The eight steps of one byte.
crcByte(crc) == crcBit(crcBit(crcBit(crcBit(crcBit(crcBit(crcBit(crcBit(crc))))))))

RECURSIVE crcUpdate(_, _)
\* The CRC register after the bytes of data.
crcUpdate(crc, data) ==
  IF Len(data) = 0 THEN crc
  ELSE crcUpdate(crcByte(U32Xor(crc, <<0, Head(data)>>)), Tail(data))

\* crc32.ChecksumIEEE of every key of the corpus, computed once.
crcOfKeys == [data \in Keys \cup MoreKeys |-> U32Xor(crcUpdate(<<65535, 65535>>, data), <<65535, 65535>>)]

\* crc32.ChecksumIEEE(data) / Zlib.crc32(data).
ChecksumIEEE(data) == crcOfKeys[data]

-----------------------------------------------------------------------------
(* crypto/md5, encoding/binary, fmt *)

\* fmt.Sprintf("%s:%d", name, i) / "#{node.id}:#{i}".
VirtualKey(name, i) == name \o ":" \o ToString(i)

\* md5.Sum(key): the digest of a virtual key (any function of the key).
Sum(key) == md5[key]

\* binary.BigEndian.Uint32(b): b[0]<<24 | b[1]<<16 | b[2]<<8 | b[3].
BigEndianUint32(b) == <<b[1] * 256 + b[2], b[3] * 256 + b[4]>>

\* Fault: the last four bytes of the digest are taken instead of the first.
serverHashForLowBytes(key) == BigEndianUint32(SubSeq(Sum(key), 13, 16))

\* serverHashFor: the first four bytes of the MD5 digest, big-endian.
serverHashFor(key) == BigEndianUint32(SubSeq(Sum(key), 1, 4))

-----------------------------------------------------------------------------
(* Go slices and maps *)

\* s[i] of a Go slice would panic (index out of range).
OutOfRange(s, i) == i < 0 \/ i >= Len(s)

\* s[i] of a Go slice, i in range.
At(s, i) == s[i + 1]

\* The empty map.
EmptyMap == << >>

\* Fault: m[k] = v only when k is not yet in m (the first insertion wins).
MapPutIfAbsent(m, k, v) == [x \in (DOMAIN m) \cup {k} |-> IF x \in DOMAIN m THEN m[x] ELSE v]

\* m[k] = v.
MapPut(m, k, v) == [x \in (DOMAIN m) \cup {k} |-> IF x = k THEN v ELSE m[x]]

\* m[k] of a map of *node: nil when k is missing.
MapGet(m, k) == IF k \in DOMAIN m THEN m[k] ELSE Nil

\* Fault: the point list is left in insertion order.
NoSort(s) == s

\* sort.Slice(s, func(i, j) bool { return s[i] < s[j] }) / Array#sort!.
SortSlice(s) == SortSeq(s, U32Less)

-----------------------------------------------------------------------------
(* cmd/go-ring-custom: rubyHashRing *)

\* node{name, client} of a shardConfig; the client is known by its address.
NewNode(cfg) == [name |-> cfg.Name, client |-> cfg.Addr]

\* make([]uint32, 0, cap) panics (makeslice: cap out of range).
MakeSlicePanics(cap) == cap < 0

RECURSIVE addVirtualNodesDedup(_, _, _, _)
\* Fault: a point already in the lookup table is not appended again.
addVirtualNodesDedup(ring, n, name, i) ==
  IF i >= ring.replicas THEN ring
  ELSE LET hash == serverHashFor(VirtualKey(name, i))
       IN  addVirtualNodesDedup([ring EXCEPT !.ring = MapPut(@, hash, n),
                                             !.sortedKeys = IF hash \in DOMAIN ring.ring
                                                            THEN @ ELSE Append(@, hash)],
                                n, name, i + 1)

RECURSIVE addVirtualNodes(_, _, _, _)
\* The loop over the replica indexes i, i+1, ... of node n (named name).
addVirtualNodes(ring, n, name, i) ==
  IF i >= ring.replicas THEN ring
  ELSE LET hash == serverHashFor(VirtualKey(name, i))
       IN  addVirtualNodes([ring EXCEPT !.ring = MapPut(@, hash, n),
                                        !.sortedKeys = Append(@, hash)],
                           n, name, i + 1)

RECURSIVE addConfigsUniqueNames(_, _)
\* Fault: a shard config whose name a node already has is skipped.
addConfigsUniqueNames(ring, cfgs) ==
  IF Len(cfgs) = 0 THEN ring
  ELSE IF \E j \in 1..Len(ring.nodes) : ring.nodes[j].name = Head(cfgs).Name
       THEN addConfigsUniqueNames(ring, Tail(cfgs))
  ELSE LET withNode == [ring EXCEPT !.nodes = Append(@, NewNode(Head(cfgs)))]
       IN  addConfigsUniqueNames(
             addVirtualNodes(withNode, Len(withNode.nodes), Head(cfgs).Name, 0), Tail(cfgs))

RECURSIVE addConfigs(_, _)
\* The loop over the shard configs, in input order.
addConfigs(ring, cfgs) ==
  IF Len(cfgs) = 0 THEN ring
  ELSE LET withNode == [ring EXCEPT !.nodes = Append(@, NewNode(Head(cfgs)))]
       IN  addConfigs(addVirtualNodes(withNode, Len(withNode.nodes), Head(cfgs).Name, 0),
                      Tail(cfgs))

\* The rubyHashRing literal newRubyHashRing starts from.
EmptyRing(reps) == [replicas |-> reps, ring |-> EmptyMap, sortedKeys |-> << >>, nodes |-> << >>]

\* newRubyHashRing(configs, replicas), its allocation having succeeded.
newRubyHashRing(cfgs, reps) ==
  [addConfigs(EmptyRing(reps), cfgs) EXCEPT !.sortedKeys = SortSlice(@)]

RECURSIVE binarySearchLoopGreaterEq(_, _, _, _)
\* Fault: the loop compares with >= instead of >.
binarySearchLoopGreaterEq(sortedKeys, value, lower, upper) ==
  IF lower < upper
  THEN LET mid == (lower + upper) \div 2
       IN  IF U32GreaterEq(At(sortedKeys, mid), value)
           THEN binarySearchLoopGreaterEq(sortedKeys, value, lower, mid)
           ELSE binarySearchLoopGreaterEq(sortedKeys, value, mid + 1, upper)
  ELSE upper - 1

RECURSIVE binarySearchLoop(_, _, _, _)
\* The loop of binarySearch from (lower, upper); its value is upper - 1.
binarySearchLoop(sortedKeys, value, lower, upper) ==
  IF lower < upper
  THEN LET mid == (lower + upper) \div 2
       IN  IF U32Greater(At(sortedKeys, mid), value)
           THEN binarySearchLoop(sortedKeys, value, lower, mid)
           ELSE binarySearchLoop(sortedKeys, value, mid + 1, upper)
  ELSE upper - 1

\* Fault: the search starts from upper = len(sortedKeys) - 1.
binarySearchUpperLast(ring, value) ==
  binarySearchLoop(ring.sortedKeys, value, 0, Len(ring.sortedKeys) - 1)

\* Fault: binarySearch returns upper instead of upper - 1.
binarySearchNoDecrement(ring, value) ==
  binarySearchLoop(ring.sortedKeys, value, 0, Len(ring.sortedKeys)) + 1

\* rubyHashRing.binarySearch(value).
binarySearch(ring, value) == binarySearchLoop(ring.sortedKeys, value, 0, Len(ring.sortedKeys))

\* Fault: the point after the one binarySearch finds, wrapping to index 0.
getNodeIndexSuccessor(ring, key) ==
  (binarySearch(ring, ChecksumIEEE(key)) + 1) % Len(ring.sortedKeys)

\* Fault: a negative index wraps to index 0 instead of the last index.
getNodeIndexWrapFirst(ring, key) ==
  LET idx == binarySearch(ring, ChecksumIEEE(key))
  IN  IF idx < 0 THEN 0 ELSE idx

\* The index getNode selects in sortedKeys (the ring is not empty).
getNodeIndex(ring, key) ==
  LET idx == binarySearch(ring, ChecksumIEEE(key))
  IN  IF idx < 0 THEN Len(ring.sortedKeys) - 1 ELSE idx

\* Fault: getNode without its check of the empty point list.
getNodeNoEmptyCheck(ring, key) ==
  LET idx == getNodeIndex(ring, key)
  IN  IF OutOfRange(ring.sortedKeys, idx) THEN [panic |-> TRUE, node |-> Nil]
      ELSE [panic |-> FALSE, node |-> MapGet(ring.ring, At(ring.sortedKeys, idx))]

\* rubyHashRing.getNode(key): the *node returned, or an index-out-of-range panic.
getNode(ring, key) ==
  IF Len(ring.sortedKeys) = 0 THEN [panic |-> FALSE, node |-> Nil]
  ELSE LET idx == getNodeIndex(ring, key)
       IN  IF OutOfRange(ring.sortedKeys, idx) THEN [panic |-> TRUE, node |-> Nil]
           ELSE [panic |-> FALSE, node |-> MapGet(ring.ring, At(ring.sortedKeys, idx))]

\* The byte strings getNode(key) hands to crc32.ChecksumIEEE: []byte(key),
\* and nothing when the empty check returns first.
getNodeHashed(ring, key) == IF Len(ring.sortedKeys) = 0 THEN {} ELSE {key}

\* shardName of main's loop: "" for a nil node.
ShardName(ring, n) == IF n = Nil THEN "" ELSE ring.nodes[n].name

-----------------------------------------------------------------------------
(* cmd/go-ring-consistenthash: rubyStyleHash *)

\* m[k] of a map of string: "" when k is missing.
MapGetString(m, k) == IF k \in DOMAIN m THEN m[k] ELSE ""

RECURSIVE addShardPoints(_, _, _)
\* The loop over the replica indexes i, i+1, ... of one shard.
addShardPoints(hash, shard, i) ==
  IF i >= hash.replicas THEN hash
  ELSE LET point == serverHashFor(VirtualKey(shard, i))
       IN  addShardPoints([hash EXCEPT !.ring = MapPut(@, point, shard),
                                       !.sortedKeys = Append(@, point)],
                          shard, i + 1)

RECURSIVE addShards(_, _)
\* The loop over the shards, in input order.
addShards(hash, shardList) ==
  IF Len(shardList) = 0 THEN hash
  ELSE addShards(addShardPoints(hash, Head(shardList), 0), Tail(shardList))

\* The rubyStyleHash literal newRubyStyleHash starts from.
EmptyStyleHash(reps) == [replicas |-> reps, ring |-> EmptyMap, sortedKeys |-> << >>]

\* newRubyStyleHash(shards, replicas), its allocation having succeeded.
newRubyStyleHash(shardList, reps) ==
  [addShards(EmptyStyleHash(reps), shardList) EXCEPT !.sortedKeys = SortSlice(@)]

RECURSIVE sortSearch(_, _, _, _)
\* sort.Search(n, func(i) bool { return sortedKeys[i] >= hash }) from (i, j).
sortSearch(sortedKeys, hash, i, j) ==
  IF i < j
  THEN LET mid == (i + j) \div 2
       IN  IF ~U32GreaterEq(At(sortedKeys, mid), hash)
           THEN sortSearch(sortedKeys, hash, mid + 1, j)
           ELSE sortSearch(sortedKeys, hash, i, mid)
  ELSE i

\* The index Get selects in sortedKeys (the ring is not empty).
GetIndex(hash, key) ==
  LET idx == sortSearch(hash.sortedKeys, ChecksumIEEE(key), 0, Len(hash.sortedKeys))
  IN  IF idx = Len(hash.sortedKeys) THEN 0 ELSE idx

\* rubyStyleHash.Get(key): the shard returned, or an index-out-of-range panic.
Get(hash, key) ==
  IF Len(hash.sortedKeys) = 0 THEN [panic |-> FALSE, shard |-> ""]
  ELSE LET idx == GetIndex(hash, key)
       IN  IF OutOfRange(hash.sortedKeys, idx) THEN [panic |-> TRUE, shard |-> ""]
           ELSE [panic |-> FALSE, shard |-> MapGetString(hash.ring, At(hash.sortedKeys, idx))]

\* The byte strings Get(key) hands to crc32.ChecksumIEEE: []byte(key), and
\* nothing when the empty check returns first.
GetHashed(hash, key) == IF Len(hash.sortedKeys) = 0 THEN {} ELSE {key}

RECURSIVE IndexByteFrom(_, _, _)
\* The first position >= i (0-based) of byte c in s, or -1.
IndexByteFrom(s, c, i) ==
  IF i >= Len(s) THEN 0 - 1
  ELSE IF At(s, i) = c THEN i ELSE IndexByteFrom(s, c, i + 1)

\* strings.IndexByte(s, c).
IndexByte(s, c) == IndexByteFrom(s, c, 0)

\* Fault: an empty tag is extracted too (end >= 0 instead of end > 0).
normalizeForGoRedisEmptyTag(key) ==
  LET start == IndexByte(key, 123)
  IN  IF start = 0 - 1 THEN key
      ELSE LET end == IndexByte(SubSeq(key, start + 2, Len(key)), 125)
           IN  IF end >= 0 THEN SubSeq(key, start + 2, start + end + 1) ELSE key

\* Fault: the tag is not cut at its '}': key[start+1:] is returned.
normalizeForGoRedisNoEnd(key) ==
  LET start == IndexByte(key, 123)
  IN  IF start = 0 - 1 THEN key
      ELSE LET end == IndexByte(SubSeq(key, start + 2, Len(key)), 125)
           IN  IF end > 0 THEN SubSeq(key, start + 2, Len(key)) ELSE key

\* normalizeForGoRedis(key): '{' is 123, '}' is 125.
normalizeForGoRedis(key) ==
  LET start == IndexByte(key, 123)
  IN  IF start = 0 - 1 THEN key
      ELSE LET end == IndexByte(SubSeq(key, start + 2, Len(key)), 125)
           IN  IF end > 0 THEN SubSeq(key, start + 2, start + end + 1) ELSE key

-----------------------------------------------------------------------------
(* redis-rb: Redis::HashRing, as scripts/ruby_ring.rb uses it *)

\* nil as an element of @sorted_keys (no point).
RubyNil == << >>

\* ary[idx] of a Ruby Array: a negative idx counts from the end, nil outside.
RubyAt(ary, idx) ==
  IF idx >= 0
  THEN IF idx < Len(ary) THEN ary[idx + 1] ELSE RubyNil
  ELSE IF 0 - idx <= Len(ary) THEN ary[Len(ary) + idx + 1] ELSE RubyNil

\* hash[key] of a Ruby Hash of nodes: nil when key is missing.
RubyFetch(hash, key) == IF key \in DOMAIN hash THEN hash[key] ELSE Nil

\* Digest::MD5.digest(key).unpack1("L>"): 32-bit unsigned, big-endian.
server_hash_for(key) == <<Sum(key)[1] * 256 + Sum(key)[2], Sum(key)[3] * 256 + Sum(key)[4]>>

\* Zlib.crc32(key).
hash_for(key) == ChecksumIEEE(key)

RECURSIVE times(_, _, _, _)
\* @replicas.times do |i| ... end of add_node, from i on.
times(ring, n, id, i) ==
  IF i >= ring.replicas THEN ring
  ELSE LET key == server_hash_for(VirtualKey(id, i))
       IN  times([ring EXCEPT !.ring = MapPut(@, key, n),
                              !.sorted_keys = Append(@, key)],
                 n, id, i + 1)

\* add_node(node): the node, its points, then @sorted_keys.sort!.
add_node(ring, node) ==
  LET withNode == [ring EXCEPT !.nodes = Append(@, node)]
  IN  [times(withNode, Len(withNode.nodes), node.id, 0) EXCEPT !.sorted_keys = SortSlice(@)]

RECURSIVE each_add_node(_, _)
\* nodes.each do |node| add_node(node) end.
each_add_node(ring, nodeList) ==
  IF Len(nodeList) = 0 THEN ring
  ELSE each_add_node(add_node(ring, Head(nodeList)), Tail(nodeList))

\* Redis::HashRing.new(nodes, replicas).
initialize(nodeList, reps) ==
  each_add_node([replicas |-> reps, ring |-> EmptyMap, nodes |-> << >>, sorted_keys |-> << >>],
                nodeList)

RECURSIVE binary_search_loop(_, _, _, _)
\* The while loop of binary_search from (lower, upper); its value is upper - 1.
binary_search_loop(ary, value, lower, upper) ==
  IF lower < upper
  THEN LET mid == (lower + upper) \div 2
       IN  IF U32Greater(ary[mid + 1], value)
           THEN binary_search_loop(ary, value, lower, mid)
           ELSE binary_search_loop(ary, value, mid + 1, upper)
  ELSE upper - 1

\* binary_search(ary, value): the closest index with value <= the given value.
binary_search(ary, value) == binary_search_loop(ary, value, 0, Len(ary))

\* get_node(key): the node object, or nil.
get_node(ring, key) ==
  LET idx == binary_search(ring.sorted_keys, hash_for(key))
  IN  RubyFetch(ring.ring, RubyAt(ring.sorted_keys, idx))

\* nodes of ruby_ring.rb: Node.new(name) for each name.
RubyNodes(cfgs) == [j \in 1..Len(cfgs) |-> [id |-> cfgs[j].Name]]

\* node&.id of ruby_ring.rb, nil written as "" (the shard of a nil *node in Go).
RubyShard(ring, n) == IF n = Nil THEN "" ELSE ring.nodes[n].id

-----------------------------------------------------------------------------
(* The programs *)

\* Node lists: every sequence of at most MaxNodes shard configs.
ConfigLists ==
  UNION { [1..n -> { [Name |-> name, Addr |-> AddrOf(name)] : name \in Names }] : n \in 0..MaxNodes }

\* Every virtual key the constructors hash for (cfgs, reps).
VirtualKeys(cfgs, reps) ==
  { VirtualKey(cfgs[j].Name, i) : j \in 1..Len(cfgs), i \in 0..(reps - 1) }

\* shards of go-ring-consistenthash: the names, in order.
ShardList(cfgs) == [j \in 1..Len(cfgs) |-> cfgs[j].Name]

\* Nothing runs beside the router's process: no goroutine, no replica-aware
\* ring, no Close() call, no digest.
NoOthers ==
  /\ g = << >>
  /\ rr = << >>
  /\ intSize = 0
  /\ call = << >>
  /\ closed = << >>
  /\ out = << >>

\* A process of one of the programs, before its router is constructed.
Init ==
  /\ prog \in Programs
  /\ configs \in ConfigLists
  /\ replicas \in ReplicaCounts
  /\ md5 \in [VirtualKeys(configs, replicas) -> Digests]
  /\ status = "new"
  /\ r = EmptyRing(0)
  /\ h = EmptyStyleHash(0)
  /\ rb = [replicas |-> 0, ring |-> EmptyMap, nodes |-> << >>, sorted_keys |-> << >>]
  /\ returned = [key \in Keys |-> {}]
  /\ shards = [key \in Keys |-> {}]
  /\ hashed = [key \in Keys |-> {}]
  /\ NoOthers

\* go-ring-custom: ring := newRubyHashRing(shardDefs, replicas).
MainNewRubyHashRing ==
  /\ prog = "go-ring-custom"
  /\ status = "new"
  /\ IF MakeSlicePanics(replicas * Len(configs))
     THEN status' = "panic" /\ UNCHANGED r
     ELSE status' = "built" /\ r' = newRubyHashRing(configs, replicas)
  /\ UNCHANGED <<prog, configs, replicas, md5, h, rb, returned, shards, hashed>>
  /\ UNCHANGED others

\* Fault: the lookup removes the point it selected from the point list.
MainGetNodeConsuming(key) ==
  /\ prog = "go-ring-custom"
  /\ status = "built"
  /\ LET res == getNode(r, key)
         idx == getNodeIndex(r, key)
     IN  IF res.panic
         THEN status' = "panic" /\ UNCHANGED <<returned, r>>
         ELSE /\ returned' = [returned EXCEPT ![key] = @ \cup {res.node}]
              /\ r' = IF Len(r.sortedKeys) = 0 THEN r
                      ELSE [r EXCEPT !.sortedKeys = SubSeq(@, 1, idx) \o SubSeq(@, idx + 2, Len(@))]
              /\ UNCHANGED status
  /\ hashed' = [hashed EXCEPT ![key] = @ \cup getNodeHashed(r, key)]
  /\ UNCHANGED <<prog, configs, replicas, md5, h, rb, shards>>
  /\ UNCHANGED others

\* Fault: the lookup memoizes its answer in the lookup table, under the key hash.
MainGetNodeCaching(key) ==
  /\ prog = "go-ring-custom"
  /\ status = "built"
  /\ LET res == getNode(r, key)
     IN  IF res.panic
         THEN status' = "panic" /\ UNCHANGED <<returned, r>>
         ELSE /\ returned' = [returned EXCEPT ![key] = @ \cup {res.node}]
              /\ r' = [r EXCEPT !.ring = MapPut(@, ChecksumIEEE(key), res.node)]
              /\ UNCHANGED status
  /\ hashed' = [hashed EXCEPT ![key] = @ \cup getNodeHashed(r, key)]
  /\ UNCHANGED <<prog, configs, replicas, md5, h, rb, shards>>
  /\ UNCHANGED others

\* Fault: the lookup loop normalizes the key as go-ring-consistenthash does.
MainGetNodeNormalizing(key) ==
  /\ prog = "go-ring-custom"
  /\ status = "built"
  /\ LET res == getNode(r, normalizeForGoRedis(key))
     IN  IF res.panic
         THEN status' = "panic" /\ UNCHANGED returned
         ELSE returned' = [returned EXCEPT ![key] = @ \cup {res.node}] /\ UNCHANGED status
  /\ hashed' = [hashed EXCEPT ![key] = @ \cup getNodeHashed(r, normalizeForGoRedis(key))]
  /\ UNCHANGED <<prog, configs, replicas, md5, r, h, rb, shards>>
  /\ UNCHANGED others

\* go-ring-custom: node := ring.getNode(key) of the lookup loop.
MainGetNode(key) ==
  /\ prog = "go-ring-custom"
  /\ status = "built"
  /\ LET res == getNode(r, key)
     IN  IF res.panic
         THEN status' = "panic" /\ UNCHANGED returned
         ELSE returned' = [returned EXCEPT ![key] = @ \cup {res.node}] /\ UNCHANGED status
  /\ hashed' = [hashed EXCEPT ![key] = @ \cup getNodeHashed(r, key)]
  /\ UNCHANGED <<prog, configs, replicas, md5, r, h, rb, shards>>
  /\ UNCHANGED others

\* go-ring-consistenthash: hash := newRubyStyleHash(shards, replicas).
MainNewRubyStyleHash ==
  /\ prog = "go-ring-consistenthash"
  /\ status = "new"
  /\ IF MakeSlicePanics(replicas * Len(configs))
     THEN status' = "panic" /\ UNCHANGED h
     ELSE status' = "built" /\ h' = newRubyStyleHash(ShardList(configs), replicas)
  /\ UNCHANGED <<prog, configs, replicas, md5, r, rb, returned, shards, hashed>>
  /\ UNCHANGED others

\* go-ring-consistenthash: shard := hash.Get(normalizeForGoRedis(key)).
MainGet(key) ==
  /\ prog = "go-ring-consistenthash"
  /\ status = "built"
  /\ LET res == Get(h, normalizeForGoRedis(key))
     IN  IF res.panic
         THEN status' = "panic" /\ UNCHANGED shards
         ELSE shards' = [shards EXCEPT ![key] = @ \cup {res.shard}] /\ UNCHANGED status
  /\ hashed' = [hashed EXCEPT ![key] = @ \cup GetHashed(h, normalizeForGoRedis(key))]
  /\ UNCHANGED <<prog, configs, replicas, md5, r, h, rb, returned>>
  /\ UNCHANGED others

\* ruby_ring.rb: ring = Redis::HashRing.new(nodes), for any replica count.
RubyNew ==
  /\ prog = "ruby_ring"
  /\ status = "new"
  /\ status' = "built"
  /\ rb' = initialize(RubyNodes(configs), replicas)
  /\ UNCHANGED <<prog, configs, replicas, md5, r, h, returned, shards, hashed>>
  /\ UNCHANGED others

\* ruby_ring.rb: node = ring.get_node(key).
RubyGetNode(key) ==
  /\ prog = "ruby_ring"
  /\ status = "built"
  /\ returned' = [returned EXCEPT ![key] = @ \cup {get_node(rb, key)}]
  /\ hashed' = [hashed EXCEPT ![key] = @ \cup {key}]
  /\ UNCHANGED <<prog, configs, replicas, md5, status, r, h, rb, shards>>
  /\ UNCHANGED others

Next ==
  \/ MainNewRubyHashRing
  \/ \E key \in Keys : MainGetNode(key)
  \/ MainNewRubyStyleHash
  \/ \E key \in Keys : MainGet(key)
  \/ RubyNew
  \/ \E key \in Keys : RubyGetNode(key)

Spec == Init /\ [][Next]_vars

-----------------------------------------------------------------------------
(* Vocabulary of the properties *)

\* The go-ring-custom process has constructed its ring.
CustomBuilt == prog = "go-ring-custom" /\ status = "built"

\* The go-ring-consistenthash process has constructed its hash.
ConsistentBuilt == prog = "go-ring-consistenthash" /\ status = "built"

\* The points of a point list, as a set.
PointSet(sortedKeys) == { sortedKeys[i] : i \in 1..Len(sortedKeys) }

\* The smallest / the largest point of a non-empty set of points.
MinPoint(S) == CHOOSE p \in S : \A q \in S : ~U32Less(q, p)
MaxPoint(S) == CHOOSE p \in S : \A q \in S : ~U32Less(p, q)

\* The (node position, replica index) pairs the constructor hashes, in any order.
VirtualNodes == (1..Len(configs)) \X (0..(replicas - 1))

\* The point of a (node position, replica index) pair.
PointOf(v) == serverHashFor(VirtualKey(configs[v[1]].Name, v[2]))

\* The node positions that have a virtual node at point p.
NodesAt(p) == { v[1] : v \in { w \in VirtualNodes : PointOf(w) = p } }

\* The position of the node inserted last among a non-empty set of positions.
Latest(S) == CHOOSE j \in S : \A k \in S : k <= j

\* Two different virtual nodes share a point.
Collision == \E v, w \in VirtualNodes : v # w /\ PointOf(v) = PointOf(w)

\* Some lookup of the go-ring-custom process has returned.
Looked(key) == returned[key] # {}

-----------------------------------------------------------------------------
(* Lookup rule of rubyHashRing.getNode *)

C3_SameShardAsRuby ==
  CustomBuilt =>
    \A key \in Keys : \A n \in returned[key] :
      LET ruby == initialize(RubyNodes(configs), replicas)
      IN  ShardName(r, n) = RubyShard(ruby, get_node(ruby, key))

\* A lookup has returned on a ring of two nodes with colliding points, for a
\* key hash below every point (where both implementations wrap).
C3_Witness ==
  /\ CustomBuilt
  /\ Len(configs) = 2
  /\ Collision
  /\ Cardinality(PointSet(r.sortedKeys)) > 1
  /\ \E key \in Keys :
       /\ Looked(key)
       /\ \A p \in PointSet(r.sortedKeys) : U32Less(ChecksumIEEE(key), p)

\* C4: on a ring with at least one point, for every key hash, getNode returns
\* a node: the index it selects is inside the point list and the point there
\* has an owner in the lookup table.
C4_AlwaysANode ==
  (prog = "go-ring-custom" /\ status # "new" /\ Len(configs) > 0 /\ replicas > 0) =>
    /\ status = "built"
    /\ Len(r.sortedKeys) > 0
    /\ \A key \in Keys :
         /\ ~OutOfRange(r.sortedKeys, getNodeIndex(r, key))
         /\ At(r.sortedKeys, getNodeIndex(r, key)) \in DOMAIN r.ring
         /\ ~getNode(r, key).panic
         /\ getNode(r, key).node \in 1..Len(r.nodes)
         /\ Nil \notin returned[key]

\* Every key has been looked up on a non-empty ring: below, at and above its points.
C4_Witness ==
  /\ CustomBuilt
  /\ Len(r.sortedKeys) > 0
  /\ \A key \in Keys : Looked(key)
  /\ \E key \in Keys : \A p \in PointSet(r.sortedKeys) : U32Less(ChecksumIEEE(key), p)
  /\ \E key \in Keys : \A p \in PointSet(r.sortedKeys) : U32Less(p, ChecksumIEEE(key))

\* C5: construction from an empty node list succeeds, and every lookup then
\* returns no node (nil from getNode, "" from Get) without a panic.
C5_EmptyRingNoNode ==
  (Len(configs) = 0 /\ status # "new") =>
    /\ status = "built"
    /\ prog = "go-ring-custom" =>
         \A key \in Keys :
           /\ getNode(r, key) = [panic |-> FALSE, node |-> Nil]
           /\ returned[key] \subseteq {Nil}
    /\ prog = "go-ring-consistenthash" =>
         \A key \in Keys :
           /\ Get(h, key) = [panic |-> FALSE, shard |-> ""]
           /\ shards[key] \subseteq {""}

\* Every key has been looked up on a ring built from the empty node list.
C5_Witness ==
  /\ CustomBuilt
  /\ Len(configs) = 0
  /\ \A key \in Keys : returned[key] = {Nil}

\* C6 (as stated): construction with replicas <= 0 fails with a configuration
\* error: it neither returns a router nor panics in another way.
C6_InvalidReplicasRejected ==
  (prog \in {"go-ring-custom", "go-ring-consistenthash"} /\ replicas <= 0) =>
    status \notin {"built", "panic"}

\* C7: for a fixed node list and replica count, all lookups of a key return
\* the same node, whenever they are made and whatever was looked up between.
C7_SameKeySameNode ==
  prog = "go-ring-custom" => \A key \in Keys : Cardinality(returned[key]) <= 1

\* All keys have been looked up on a ring whose points have different owners.
C7_Witness ==
  /\ CustomBuilt
  /\ \A key \in Keys : Looked(key)
  /\ \E key1, key2 \in Keys : returned[key1] # returned[key2]

\* C8: after construction from n nodes with R >= 1 the point list has R * n
\* entries, colliding points included; the lookup table has one entry per
\* distinct point, so fewer than R * n when points collide.
C8_PointCount ==
  /\ (CustomBuilt /\ replicas >= 1) =>
       /\ Len(r.sortedKeys) = replicas * Len(configs)
       /\ Cardinality(DOMAIN r.ring) = Cardinality({ PointOf(v) : v \in VirtualNodes })
       /\ Collision => Cardinality(DOMAIN r.ring) < replicas * Len(configs)
  /\ (ConsistentBuilt /\ replicas >= 1) =>
       /\ Len(h.sortedKeys) = replicas * Len(configs)
       /\ Cardinality(DOMAIN h.ring) = Cardinality({ PointOf(v) : v \in VirtualNodes })
       /\ Collision => Cardinality(DOMAIN h.ring) < replicas * Len(configs)

\* A ring of two nodes and two replicas has been built with colliding points.
C8_Witness ==
  /\ CustomBuilt
  /\ Len(configs) = 2 /\ replicas = 2
  /\ Collision
  /\ Len(r.sortedKeys) = 4

\* C9: after construction the point list is ascending and holds every point
\* exactly as often as virtual nodes hash to it.
C9_SortedPermutation ==
  CustomBuilt =>
    /\ \A i \in 1..(Len(r.sortedKeys) - 1) : ~U32Less(r.sortedKeys[i + 1], r.sortedKeys[i])
    /\ \A p \in PointSet(r.sortedKeys) \cup { PointOf(v) : v \in VirtualNodes } :
         Cardinality({ i \in 1..Len(r.sortedKeys) : r.sortedKeys[i] = p })
           = Cardinality({ v \in VirtualNodes : PointOf(v) = p })

\* A ring has been built whose points were inserted out of order, one of them twice.
C9_Witness ==
  /\ CustomBuilt
  /\ Collision
  /\ \E v, w \in VirtualNodes :
       /\ v[1] < w[1]
       /\ U32Less(PointOf(w), PointOf(v))

\* C10: a point two virtual nodes share is owned by the node inserted last,
\* also after sorting, and every lookup that selects it returns that node.
C10_LastInsertionOwns ==
  CustomBuilt =>
    /\ \A p \in PointSet(r.sortedKeys) : r.ring[p] = Latest(NodesAt(p))
    /\ \A key \in Keys : \A n \in returned[key] :
         Len(r.sortedKeys) > 0 =>
           n = Latest(NodesAt(At(r.sortedKeys, getNodeIndex(r, key))))

\* A lookup has returned for a key that selects a point two differently named
\* nodes share.
C10_Witness ==
  /\ CustomBuilt
  /\ \E key \in Keys :
       /\ Looked(key)
       /\ Len(r.sortedKeys) > 0
       /\ Cardinality(NodesAt(At(r.sortedKeys, getNodeIndex(r, key)))) = 2
       /\ configs[1].Name # configs[2].Name

-----------------------------------------------------------------------------
(* C11: the custom router hashes the whole key *)

\* The hash tag go-redis would extract from a key ("" written as the key itself).
SameTag(k1, k2) == k1 # k2 /\ normalizeForGoRedis(k1) = normalizeForGoRedis(k2)

\* C11: in go-ring-custom every byte string handed to the key hash for a key
\* is the key itself, braces included; two different keys that share a
\* '{tag}' are hashed as different inputs, and the node each lookup returned
\* is the one the CRC-32 of the whole key selects.
C11_WholeKeyHashed ==
  prog = "go-ring-custom" =>
    /\ \A key \in Keys : hashed[key] \subseteq {key}
    /\ \A k1 \in Keys, k2 \in Keys : SameTag(k1, k2) => hashed[k1] \cap hashed[k2] = {}
    /\ \A key \in Keys : \A n \in returned[key] :
         \/ Len(r.sortedKeys) = 0
         \/ n = r.ring[At(r.sortedKeys, getNodeIndex(r, key))]

\* Two keys with the tag {t} were looked up on a ring where the whole keys
\* select different nodes, and the tag alone would select one node for both.
C11_Witness ==
  /\ CustomBuilt
  /\ hashed[<<123, 116, 125, 97>>] = { <<123, 116, 125, 97>> }
  /\ hashed[<<123, 116, 125, 98>>] = { <<123, 116, 125, 98>> }
  /\ returned[<<123, 116, 125, 97>>] # returned[<<123, 116, 125, 98>>]
  /\ ChecksumIEEE(<<123, 116, 125, 97>>) # ChecksumIEEE(<<123, 116, 125, 98>>)

-----------------------------------------------------------------------------
(* C12: the ConsistentHash override against Redis::HashRing, without hash tags *)

\* A key go-redis passes on unchanged: it has no hash tag to extract.
NoHashTag(key) == normalizeForGoRedis(key) = key

\* C12: for every key without a hash tag, the shard rubyStyleHash.Get returned
\* is the shard Redis::HashRing#get_node returns on a ring of the same
\* shards, order and replica count ("" for no node).
C12_GetMatchesRubyWithoutTags ==
  ConsistentBuilt =>
    \A key \in { k \in Keys : NoHashTag(k) } : \A s \in shards[key] :
      LET ruby == initialize(RubyNodes(configs), replicas)
      IN  s = RubyShard(ruby, get_node(ruby, key))

-----------------------------------------------------------------------------
(* C13: a lookup leaves the ring alone *)

\* C13: no step taken after construction (every getNode call of the lookup
\* loop is one) changes the ring: its replica count, point list, lookup table
\* and node list stay what newRubyHashRing returned.
C13_LookupsLeaveRing == [][CustomBuilt => r' = r]_vars

\* Every key has been looked up on a ring of at least two points, and the ring
\* is still the one the constructor returns.
C13_Witness ==
  /\ CustomBuilt
  /\ \A key \in Keys : Looked(key)
  /\ Len(r.sortedKeys) >= 2
  /\ r = newRubyHashRing(configs, replicas)

-----------------------------------------------------------------------------
(* Concurrent lookups: goroutines calling getNode on one ring *)

\* Most goroutines that call getNode at the same time.
MaxGoroutines == 2

Goroutines == 1..MaxGoroutines

\* A goroutine that has not called getNode yet, its locals zero.
IdleGoroutine ==
  [pc |-> "idle", key |-> << >>, hash |-> <<0, 0>>, lower |-> 0, upper |-> 0,
   idx |-> 0, nodeKey |-> <<0, 0>>, node |-> Nil]

\* shardDefs of main, as far as Names goes.
ShardDefs ==
  << [Name |-> "cache-a", Addr |-> AddrOf("cache-a")],
     [Name |-> "cache-b", Addr |-> AddrOf("cache-b")] >>

\* The go-ring-custom process before it constructs its ring from no shard or
\* from shardDefs, one point per node; its goroutines have not started.
ConcInit ==
  /\ prog = "go-ring-custom"
  /\ configs \in { << >>, ShardDefs }
  /\ replicas = 1
  /\ md5 \in [VirtualKeys(configs, replicas) -> Digests]
  /\ status = "new"
  /\ r = EmptyRing(0)
  /\ h = EmptyStyleHash(0)
  /\ rb = [replicas |-> 0, ring |-> EmptyMap, nodes |-> << >>, sorted_keys |-> << >>]
  /\ returned = [key \in Keys |-> {}]
  /\ shards = [key \in Keys |-> {}]
  /\ hashed = [key \in Keys |-> {}]
  /\ g = [p \in Goroutines |-> IdleGoroutine]
  /\ rr = << >>
  /\ intSize = 0
  /\ call = << >>
  /\ closed = << >>
  /\ out = << >>

\* What a step of a goroutine leaves alone: everything but g and the ring.
ConcFrame ==
  UNCHANGED <<prog, configs, replicas, md5, status, h, rb, returned, shards,
              hashed, rr, intSize, call, closed, out>>

\* A caller starts ring.getNode(key) on the constructed ring.
ConcGo(p, key) ==
  /\ status = "built"
  /\ g[p].pc = "idle"
  /\ g' = [g EXCEPT ![p] = [@ EXCEPT !.pc = "getNode", !.key = key]]
  /\ UNCHANGED r
  /\ ConcFrame

\* getNode: the check of the empty point list, then the CRC-32 of the key.
ConcGetNode(p) ==
  /\ g[p].pc = "getNode"
  /\ g' = [g EXCEPT ![p] =
            IF Len(r.sortedKeys) = 0
            THEN [@ EXCEPT !.pc = "done", !.node = Nil]
            ELSE [@ EXCEPT !.pc = "binarySearch", !.hash = ChecksumIEEE(g[p].key)]]
  /\ UNCHANGED r
  /\ ConcFrame

\* binarySearch: lower, upper := 0, len(r.sortedKeys).
ConcBinarySearch(p) ==
  /\ g[p].pc = "binarySearch"
  /\ g' = [g EXCEPT ![p] = [@ EXCEPT !.pc = "loop", !.lower = 0, !.upper = Len(r.sortedKeys)]]
  /\ UNCHANGED r
  /\ ConcFrame

\* binarySearch: one iteration of the loop, or return upper - 1 to getNode.
ConcLoop(p) ==
  /\ g[p].pc = "loop"
  /\ g' = [g EXCEPT ![p] =
            IF g[p].lower < g[p].upper
            THEN LET mid == (g[p].lower + g[p].upper) \div 2
                 IN  IF U32Greater(At(r.sortedKeys, mid), g[p].hash)
                     THEN [@ EXCEPT !.upper = mid]
                     ELSE [@ EXCEPT !.lower = mid + 1]
            ELSE [@ EXCEPT !.pc = "wrap", !.idx = g[p].upper - 1]]
  /\ UNCHANGED r
  /\ ConcFrame

\* getNode: if idx < 0 { idx = len(r.sortedKeys) - 1 }.
ConcWrap(p) ==
  /\ g[p].pc = "wrap"
  /\ g' = [g EXCEPT ![p] =
            [@ EXCEPT !.pc = "index",
                      !.idx = IF g[p].idx < 0 THEN Len(r.sortedKeys) - 1 ELSE g[p].idx]]
  /\ UNCHANGED r
  /\ ConcFrame

\* Fault: the lookup moves the point it selected to the front of the point list.
ConcIndexMoveToFront(p) ==
  /\ g[p].pc = "index"
  /\ IF OutOfRange(r.sortedKeys, g[p].idx)
     THEN g' = [g EXCEPT ![p] = [@ EXCEPT !.pc = "panic"]] /\ UNCHANGED r
     ELSE /\ g' = [g EXCEPT ![p] = [@ EXCEPT !.pc = "lookup", !.nodeKey = At(r.sortedKeys, g[p].idx)]]
          /\ r' = [r EXCEPT !.sortedKeys =
                      <<At(r.sortedKeys, g[p].idx)>> \o SubSeq(@, 1, g[p].idx)
                        \o SubSeq(@, g[p].idx + 2, Len(@))]
  /\ ConcFrame

\* getNode: nodeKey := r.sortedKeys[idx].
ConcIndex(p) ==
  /\ g[p].pc = "index"
  /\ g' = [g EXCEPT ![p] =
            IF OutOfRange(r.sortedKeys, g[p].idx)
            THEN [@ EXCEPT !.pc = "panic"]
            ELSE [@ EXCEPT !.pc = "lookup", !.nodeKey = At(r.sortedKeys, g[p].idx)]]
  /\ UNCHANGED r
  /\ ConcFrame

\* getNode: return r.ring[nodeKey].
ConcLookup(p) ==
  /\ g[p].pc = "lookup"
  /\ g' = [g EXCEPT ![p] = [@ EXCEPT !.pc = "done", !.node = MapGet(r.ring, g[p].nodeKey)]]
  /\ UNCHANGED r
  /\ ConcFrame

ConcNext ==
  \/ MainNewRubyHashRing
  \/ \E p \in Goroutines, key \in Keys : ConcGo(p, key)
  \/ \E p \in Goroutines : ConcGetNode(p)
  \/ \E p \in Goroutines : ConcBinarySearch(p)
  \/ \E p \in Goroutines : ConcLoop(p)
  \/ \E p \in Goroutines : ConcWrap(p)
  \/ \E p \in Goroutines : ConcIndex(p)
  \/ \E p \in Goroutines : ConcLookup(p)

SpecConc == ConcInit /\ [][ConcNext]_vars

\* C14: while goroutines run getNode step by step on the constructed ring, in
\* any interleaving and without a lock, the ring stays what the constructor
\* returned, no lookup panics, and every lookup that has returned holds the
\* node getNode returns for its key when it runs alone on that ring.
C14_ConcurrentLookupsAsAlone ==
  CustomBuilt =>
    /\ r = newRubyHashRing(configs, replicas)
    /\ \A p \in DOMAIN g :
         /\ g[p].pc # "panic"
         /\ g[p].pc = "done" =>
              g[p].node = getNode(newRubyHashRing(configs, replicas), g[p].key).node

\* Two lookups of different keys are in flight at once on a ring of two
\* points with different owners: one inside the search loop, one past it.
C14_Witness ==
  /\ CustomBuilt
  /\ Cardinality(PointSet(r.sortedKeys)) = 2
  /\ \E p \in DOMAIN g, q \in DOMAIN g :
       /\ g[p].pc = "loop" /\ g[p].lower > 0
       /\ g[q].pc = "lookup"
       /\ g[p].key # g[q].key

-----------------------------------------------------------------------------
(* docs/redis-replicas.md: the ring with read replicas *)

\* Most read replicas configured for a shard.
MaxReplicaAddrs == 2

\* nil *redis.Client.
NilClient == [shard |-> 0, addr |-> "", readOnly |-> FALSE]

\* redis.NewClient(&redis.Options{Addr: addr, ReadOnly: readOnly}) made for
\* node n: a client is known by the node it was made for and its options.
NewClient(n, addr, readOnly) == [shard |-> n, addr |-> addr, readOnly |-> readOnly]

\* ReplicaAddrs of a shard with k replicas: "<name>-replica-1", ...
ReplicaAddrsOf(name, k) == [i \in 1..k |-> name \o "-replica-" \o ToString(i)]

\* Node lists with replicas: every node list, every replica count per name.
ReplicaConfigLists ==
  { [j \in DOMAIN c |-> [Name |-> c[j].Name,
                         PrimaryAddr |-> c[j].Name \o "-primary",
                         ReplicaAddrs |-> ReplicaAddrsOf(c[j].Name, k[c[j].Name])]] :
      c \in ConfigLists, k \in [Names -> 0..MaxReplicaAddrs] }

\* The node of a shardConfig, made as node n: its primary client and one
\* read-only client per replica address, in order.
NewReplicaNode(cfg, n) ==
  [name |-> cfg.Name,
   primary |-> NewClient(n, cfg.PrimaryAddr, FALSE),
   replicas |-> [i \in 1..Len(cfg.ReplicaAddrs) |-> NewClient(n, cfg.ReplicaAddrs[i], TRUE)]]

RECURSIVE addReplicaConfigs(_, _)
\* The loop over the shard configs, in input order.
addReplicaConfigs(ring, cfgs) ==
  IF Len(cfgs) = 0 THEN ring
  ELSE LET withNode ==
             [ring EXCEPT !.nodes = Append(@, NewReplicaNode(Head(cfgs), Len(ring.nodes) + 1))]
       IN  addReplicaConfigs(addVirtualNodes(withNode, Len(withNode.nodes), Head(cfgs).Name, 0),
                             Tail(cfgs))

\* newRubyHashRingWithReplicas(configs, replicas), its allocation having succeeded.
newRubyHashRingWithReplicas(cfgs, reps) ==
  [addReplicaConfigs(EmptyRing(reps), cfgs) EXCEPT !.sortedKeys = SortSlice(@)]

\* getPrimaryClient(key): the client returned, or a panic.
getPrimaryClient(ring, key) ==
  LET res == getNode(ring, key)
  IN  IF res.panic THEN [panic |-> TRUE, client |-> NilClient]
      ELSE IF res.node = Nil THEN [panic |-> FALSE, client |-> NilClient]
      ELSE [panic |-> FALSE, client |-> ring.nodes[res.node].primary]

\* The uint32 hash modulo n (n > 0), as a value of 0..n-1.
U32Mod(hash, n) == (((hash[1] % n) * (65536 % n)) + (hash[2] % n)) % n

\* int(hash) % n in Go, for an int of size bits: with 32 bits a hash >= 2^31
\* converts to hash - 2^32, and % takes the sign of the dividend.
IntMod(hash, n, size) ==
  IF size = 64 \/ hash[1] < 32768 THEN U32Mod(hash, n)
  ELSE 0 - ((((((65536 % n) * (65536 % n)) % n) + n) - U32Mod(hash, n)) % n)

\* Fault: the replica is taken from the replicas of all nodes, pooled in order.
getReplicaClientPooled(ring, key, size) ==
  LET res == getNode(ring, key)
      pooled[j \in 0..Len(ring.nodes)] ==
        IF j = 0 THEN << >> ELSE pooled[j - 1] \o ring.nodes[j].replicas
      pool == pooled[Len(ring.nodes)]
  IN  IF res.panic THEN [panic |-> TRUE, client |-> NilClient]
      ELSE IF res.node = Nil THEN [panic |-> FALSE, client |-> NilClient]
      ELSE IF Len(ring.nodes[res.node].replicas) = 0
           THEN [panic |-> FALSE, client |-> ring.nodes[res.node].primary]
      ELSE LET idx == IntMod(ChecksumIEEE(key), Len(pool), size)
           IN  IF OutOfRange(pool, idx) THEN [panic |-> TRUE, client |-> NilClient]
               ELSE [panic |-> FALSE, client |-> At(pool, idx)]

\* getReplicaClient(key), int being size bits wide: the client returned, or a panic.
getReplicaClient(ring, key, size) ==
  LET res == getNode(ring, key)
  IN  IF res.panic THEN [panic |-> TRUE, client |-> NilClient]
      ELSE IF res.node = Nil THEN [panic |-> FALSE, client |-> NilClient]
      ELSE LET node == ring.nodes[res.node]
           IN  IF Len(node.replicas) = 0 THEN [panic |-> FALSE, client |-> node.primary]
               ELSE LET idx == IntMod(ChecksumIEEE(key), Len(node.replicas), size)
                    IN  IF OutOfRange(node.replicas, idx)
                        THEN [panic |-> TRUE, client |-> NilClient]
                        ELSE [panic |-> FALSE, client |-> At(node.replicas, idx)]

\* getClientForRead(key).
getClientForRead(ring, key, size) == getReplicaClient(ring, key, size)

\* getClientForWrite(key).
getClientForWrite(ring, key) == getPrimaryClient(ring, key)

\* isHealthy(client): the client answers PING; healthy is the set of clients
\* that do at the time of the call.
isHealthy(client, healthy) == client \in healthy

RECURSIVE firstHealthyFromEnd(_, _, _)
\* Fault: the loop runs over the replicas from the last one down.
firstHealthyFromEnd(replicaList, healthy, i) ==
  IF i >= Len(replicaList) THEN NilClient
  ELSE IF isHealthy(At(replicaList, Len(replicaList) - 1 - i), healthy)
       THEN At(replicaList, Len(replicaList) - 1 - i)
  ELSE firstHealthyFromEnd(replicaList, healthy, i + 1)

RECURSIVE firstHealthy(_, _, _)
\* The loop of getHealthyReplicaClient over replicas[i], replicas[i+1], ...:
\* the first healthy one, or nil when the loop ends.
firstHealthy(replicaList, healthy, i) ==
  IF i >= Len(replicaList) THEN NilClient
  ELSE IF isHealthy(At(replicaList, i), healthy) THEN At(replicaList, i)
  ELSE firstHealthy(replicaList, healthy, i + 1)

\* getHealthyReplicaClient(key): the client returned, or a panic.
getHealthyReplicaClient(ring, key, healthy) ==
  LET res == getNode(ring, key)
  IN  IF res.panic THEN [panic |-> TRUE, client |-> NilClient]
      ELSE IF res.node = Nil THEN [panic |-> FALSE, client |-> NilClient]
      ELSE LET node == ring.nodes[res.node]
               found == firstHealthy(node.replicas, healthy, 0)
           IN  [panic |-> FALSE, client |-> IF found # NilClient THEN found ELSE node.primary]

\* getRandomReplicaClient(key), rand.Intn returning rnd: the client returned,
\* or a panic (node.primary of a nil node dereferences nil).
getRandomReplicaClient(ring, key, rnd) ==
  LET res == getNode(ring, key)
  IN  IF res.panic \/ res.node = Nil THEN [panic |-> TRUE, client |-> NilClient]
      ELSE LET node == ring.nodes[res.node]
           IN  IF Len(node.replicas) = 0 THEN [panic |-> FALSE, client |-> node.primary]
               ELSE IF OutOfRange(node.replicas, rnd) THEN [panic |-> TRUE, client |-> NilClient]
               ELSE [panic |-> FALSE, client |-> At(node.replicas, rnd)]

\* The replica clients of the node getNode(key) resolves (none for no node).
ResolvedReplicas(ring, key) ==
  LET res == getNode(ring, key)
  IN  IF res.panic \/ res.node = Nil THEN {}
      ELSE { ring.nodes[res.node].replicas[i] : i \in 1..Len(ring.nodes[res.node].replicas) }

\* Keys sent through the replica-aware ring: "a", "t", "{t}a".
ReplicaKeys == { <<97>>, <<116>>, <<123, 116, 125, 97>> }

\* No selector has been called yet.
NoCall == [op |-> "", key |-> << >>, healthy |-> {}, panic |-> FALSE, client |-> NilClient]

\* A service before it constructs its ring with replicas, one point per
\* node, built for a platform whose int is 32 or 64 bits wide.
ReplInit ==
  /\ prog = "replicas"
  /\ configs \in ReplicaConfigLists
  /\ replicas = 1
  /\ md5 \in [VirtualKeys(configs, replicas) -> Digests]
  /\ status = "new"
  /\ rr = EmptyRing(0)
  /\ intSize \in {32, 64}
  /\ call = NoCall
  /\ r = EmptyRing(0)
  /\ h = EmptyStyleHash(0)
  /\ rb = [replicas |-> 0, ring |-> EmptyMap, nodes |-> << >>, sorted_keys |-> << >>]
  /\ returned = [key \in Keys |-> {}]
  /\ shards = [key \in Keys |-> {}]
  /\ hashed = [key \in Keys |-> {}]
  /\ g = << >>
  /\ closed = << >>
  /\ out = << >>

\* What the replica-aware ring's steps leave alone.
ReplFrame ==
  UNCHANGED <<prog, configs, replicas, md5, intSize, r, h, rb, returned, shards,
              hashed, g, closed, out>>

\* ring := newRubyHashRingWithReplicas(shardDefs, replicas).
ReplNew ==
  /\ prog = "replicas"
  /\ status = "new"
  /\ IF MakeSlicePanics(replicas * Len(configs))
     THEN status' = "panic" /\ UNCHANGED rr
     ELSE status' = "built" /\ rr' = newRubyHashRingWithReplicas(configs, replicas)
  /\ UNCHANGED call
  /\ ReplFrame

\* The state after a selector call: its result, or the crash of the service.
ReplCalled(op, key, healthy, res) ==
  /\ call' = [op |-> op, key |-> key, healthy |-> healthy,
              panic |-> res.panic, client |-> res.client]
  /\ status' = IF res.panic THEN "panic" ELSE status
  /\ UNCHANGED rr
  /\ ReplFrame

\* setCache / getWithConsistency: client := ring.getClientForWrite(key).
ReplGetClientForWrite(key) ==
  /\ prog = "replicas"
  /\ status = "built"
  /\ ReplCalled("getClientForWrite", key, {}, getClientForWrite(rr, key))

\* getCache: client := ring.getClientForRead(key).
ReplGetClientForRead(key) ==
  /\ prog = "replicas"
  /\ status = "built"
  /\ ReplCalled("getClientForRead", key, {}, getClientForRead(rr, key, intSize))

\* ring.getHealthyReplicaClient(key), the replicas in healthy answering PING.
ReplGetHealthyReplicaClient(key, healthy) ==
  /\ prog = "replicas"
  /\ status = "built"
  /\ ReplCalled("getHealthyReplicaClient", key, healthy,
                getHealthyReplicaClient(rr, key, healthy))

\* ring.getRandomReplicaClient(key), rand.Intn returning rnd.
ReplGetRandomReplicaClient(key, rnd) ==
  /\ prog = "replicas"
  /\ status = "built"
  /\ ReplCalled("getRandomReplicaClient", key, {}, getRandomReplicaClient(rr, key, rnd))

ReplNext ==
  \/ ReplNew
  \/ \E key \in ReplicaKeys : ReplGetClientForWrite(key)
  \/ \E key \in ReplicaKeys : ReplGetClientForRead(key)
  \/ \E key \in ReplicaKeys : \E healthy \in SUBSET ResolvedReplicas(rr, key) :
       ReplGetHealthyReplicaClient(key, healthy)
  \/ \E key \in ReplicaKeys :
       \E rnd \in 0..(IF ResolvedReplicas(rr, key) = {} THEN 0
                      ELSE Cardinality(ResolvedReplicas(rr, key)) - 1) :
         ReplGetRandomReplicaClient(key, rnd)

SpecRepl == ReplInit /\ [][ReplNext]_vars

-----------------------------------------------------------------------------
(* C15, C16: client selection on the ring with replicas *)

\* The service has constructed its ring with replicas (and may have crashed since).
ReplBuilt == prog = "replicas" /\ status # "new"

\* The node getNode resolves for the key of the last call (Nil for none).
CallNode == getNode(rr, call.key).node

\* The clients of node n: its primary and its replicas.
ClientsOf(n) ==
  {rr.nodes[n].primary} \cup { rr.nodes[n].replicas[i] : i \in 1..Len(rr.nodes[n].replicas) }

\* The node list without its replicas, as newRubyHashRing takes it.
PlainConfigs == [j \in DOMAIN configs |-> [Name |-> configs[j].Name, Addr |-> configs[j].PrimaryAddr]]

\* C15: whatever replicas each shard has and whichever of them are healthy,
\* the client that getClientForRead, getClientForWrite or
\* getHealthyReplicaClient returns is a client of the node getNode resolves
\* for the key (no client for no node), and that node has the name of the
\* node the ring built without replicas resolves.
C15_SelectionKeepsShard ==
  (ReplBuilt /\ ~call.panic
     /\ call.op \in {"getClientForRead", "getClientForWrite", "getHealthyReplicaClient"}) =>
    LET plain == newRubyHashRing(PlainConfigs, replicas)
    IN  /\ CallNode = Nil => call.client = NilClient
        /\ CallNode # Nil => call.client \in ClientsOf(CallNode) /\ call.client.shard = CallNode
        /\ ShardName(rr, CallNode) = ShardName(plain, getNode(plain, call.key).node)

\* A read has returned a replica on a ring of two nodes that both have
\* replicas, in different numbers.
C15_Witness ==
  /\ ReplBuilt /\ ~call.panic
  /\ call.op = "getClientForRead"
  /\ Len(rr.nodes) = 2
  /\ Len(rr.nodes[1].replicas) > 0 /\ Len(rr.nodes[2].replicas) > 0
  /\ Len(rr.nodes[1].replicas) # Len(rr.nodes[2].replicas)
  /\ CallNode = 2
  /\ call.client.readOnly

\* C16: on a ring with at least one point, getClientForWrite returns the
\* primary client of the resolved node; getClientForRead returns one of the
\* resolved node's replica clients when it has any and its primary client
\* when it has none.
C16_WritePrimaryReadReplica ==
  (ReplBuilt /\ Len(rr.sortedKeys) > 0) =>
    /\ call.op = "getClientForWrite" =>
         ~call.panic /\ call.client = rr.nodes[CallNode].primary /\ ~call.client.readOnly
    /\ call.op = "getClientForRead" =>
         /\ ~call.panic
         /\ IF Len(rr.nodes[CallNode].replicas) > 0
            THEN call.client \in ResolvedReplicas(rr, call.key)
            ELSE call.client = rr.nodes[CallNode].primary

-----------------------------------------------------------------------------
(* cmd/go-ring-custom: main from start to exit *)

\* What the steps of main outside the ring leave alone.
ExitFrame ==
  UNCHANGED <<prog, configs, replicas, md5, r, h, rb, returned, shards, hashed,
              g, rr, intSize, call, out>>

\* go-ring-custom started on a node list, one point per node; nothing is
\* read, built or closed yet.
ExitInit ==
  /\ prog = "go-ring-custom"
  /\ configs \in ConfigLists
  /\ replicas = 1
  /\ md5 \in [VirtualKeys(configs, replicas) -> Digests]
  /\ status = "start"
  /\ r = EmptyRing(0)
  /\ h = EmptyStyleHash(0)
  /\ rb = [replicas |-> 0, ring |-> EmptyMap, nodes |-> << >>, sorted_keys |-> << >>]
  /\ returned = [key \in Keys |-> {}]
  /\ shards = [key \in Keys |-> {}]
  /\ hashed = [key \in Keys |-> {}]
  /\ g = << >>
  /\ rr = << >>
  /\ intSize = 0
  /\ call = << >>
  /\ closed = << >>
  /\ out = << >>

\* main: os.ReadFile and json.Unmarshal of the keys, each panicking on an
\* error; no defer is registered yet.
MainReadKeys(ok) ==
  /\ prog = "go-ring-custom"
  /\ status = "start"
  /\ status' = IF ok THEN "new" ELSE "failed"
  /\ UNCHANGED closed
  /\ ExitFrame

\* main: json.MarshalIndent(out, ...) after the lookup loop; panic on an error.
MainMarshalIndent(ok) ==
  /\ prog = "go-ring-custom"
  /\ status = "built"
  /\ status' = IF ok THEN "encoded" ELSE "panicking"
  /\ UNCHANGED closed
  /\ ExitFrame

\* main: os.WriteFile(*outputPath, encoded, 0o644); panic on an error,
\* return from main otherwise.
MainWriteFile(ok) ==
  /\ prog = "go-ring-custom"
  /\ status = "encoded"
  /\ status' = IF ok THEN "returning" ELSE "panicking"
  /\ UNCHANGED closed
  /\ ExitFrame

\* Close() is called on the client of each node of nodeList, in order.
CloseAll(nodeList) == closed \o [j \in 1..Len(nodeList) |-> j]

\* Fault: the clients are closed by a statement at the end of main, which a
\* panic never reaches.
MainCloseAtEnd ==
  /\ prog = "go-ring-custom"
  /\ status \in {"returning", "panicking"}
  /\ IF status = "returning"
     THEN status' = "exited" /\ closed' = CloseAll(r.nodes)
     ELSE status' = "crashed" /\ UNCHANGED closed
  /\ ExitFrame

\* main's deferred function runs when main returns and when it panics:
\* for _, n := range ring.nodes { _ = n.client.Close() }; then the process
\* exits, or crashes with the panic.
MainDeferred ==
  /\ prog = "go-ring-custom"
  /\ status \in {"returning", "panicking"}
  /\ status' = IF status = "returning" THEN "exited" ELSE "crashed"
  /\ closed' = CloseAll(r.nodes)
  /\ ExitFrame

ExitNext ==
  \/ \E ok \in BOOLEAN : MainReadKeys(ok)
  \/ MainNewRubyHashRing
  \/ \E key \in Keys : MainGetNode(key)
  \/ \E ok \in BOOLEAN : MainMarshalIndent(ok)
  \/ \E ok \in BOOLEAN : MainWriteFile(ok)
  \/ MainDeferred

SpecExit == ExitInit /\ [][ExitNext]_vars

\* How many times Close() was called on the client of node j.
CloseCount(j) == Cardinality({ i \in 1..Len(closed) : closed[i] = j })

\* C17: when go-ring-custom's main has ended after building its ring, by
\* returning or by a panic of the encoding or of the write, the ring holds
\* one node per shard config and the client of each node has been closed
\* exactly once.
C17_EveryClientClosedOnce ==
  (prog = "go-ring-custom" /\ status \in {"exited", "crashed"}) =>
    /\ Len(r.nodes) = Len(configs)
    /\ \A j \in 1..Len(r.nodes) : CloseCount(j) = 1
    /\ Len(closed) = Len(r.nodes)

\* main has ended by a panic after lookups on a ring of two nodes of one
\* name (two clients of one address).
C17_Witness ==
  /\ prog = "go-ring-custom"
  /\ status = "crashed"
  /\ Len(r.nodes) = 2
  /\ r.nodes[1].client = r.nodes[2].client
  /\ \E key \in Keys : Looked(key)
  /\ closed = <<1, 2>>

-----------------------------------------------------------------------------
(* serverHashFor over digests *)

\* Byte values of the first four digest bytes: both ends, and both sides of
\* the sign bit.
HeadBytes == {0, 127, 128, 255}

\* The remaining twelve bytes of a digest.
DigestTails ==
  { <<1, 2, 3, 4, 5, 6, 7, 8, 9, 10, 11, 12>>,
    <<255, 254, 253, 252, 251, 250, 249, 248, 247, 246, 245, 244>> }

\* Two virtual keys of one shard.
DigestKeys == { VirtualKey("cache-a", 0), VirtualKey("cache-a", 1) }

\* Two virtual keys whose digests start with the same four bytes and go on
\* differently; no hash is computed yet.
DigestInit ==
  /\ prog = "serverHashFor"
  /\ \E head \in [1..4 -> HeadBytes] :
       \E tails \in [DigestKeys -> DigestTails] :
         /\ \A k1 \in DigestKeys, k2 \in DigestKeys : k1 # k2 => tails[k1] # tails[k2]
         /\ md5 = [key \in DigestKeys |-> head \o tails[key]]
  /\ out = [key \in DigestKeys |-> << >>]
  /\ configs = << >>
  /\ replicas = 0
  /\ status = "new"
  /\ r = EmptyRing(0)
  /\ h = EmptyStyleHash(0)
  /\ rb = [replicas |-> 0, ring |-> EmptyMap, nodes |-> << >>, sorted_keys |-> << >>]
  /\ returned = [key \in Keys |-> {}]
  /\ shards = [key \in Keys |-> {}]
  /\ hashed = [key \in Keys |-> {}]
  /\ g = << >>
  /\ rr = << >>
  /\ intSize = 0
  /\ call = << >>
  /\ closed = << >>

\* hash := serverHashFor(virtualKey).
DigestServerHashFor(key) ==
  /\ prog = "serverHashFor"
  /\ out[key] = << >>
  /\ out' = [out EXCEPT ![key] = serverHashFor(key)]
  /\ UNCHANGED <<prog, configs, replicas, md5, status, r, h, rb, returned, shards,
                 hashed, g, rr, intSize, call, closed>>

\* Digest::MD5.digest(key).unpack1("L>") of redis-rb, on the same digests.
DigestRubyServerHashFor(key) ==
  /\ prog = "serverHashFor"
  /\ out[key] # << >>
  /\ status = "new"
  /\ status' = IF server_hash_for(key) = out[key] THEN "same" ELSE "differ"
  /\ UNCHANGED <<prog, configs, replicas, md5, r, h, rb, returned, shards,
                 hashed, g, rr, intSize, call, closed, out>>

DigestNext ==
  \/ \E key \in DigestKeys : DigestServerHashFor(key)
  \/ \E key \in DigestKeys : DigestRubyServerHashFor(key)

SpecDigest == DigestInit /\ [][DigestNext]_vars

\* C18: the value serverHashFor returns for a digest d is a pair of 16-bit
\* halves (a value of [0, 2^32)) whose four bytes, from the most significant
\* down, are d[0], d[1], d[2], d[3]: d[0]*2^24 + d[1]*2^16 + d[2]*2^8 + d[3].
\* Two digests with the same first four bytes and different remaining
\* twelve hash to the same value, and Ruby's unpack1("L>") agrees.
C18_BigEndianFirstFour ==
  prog = "serverHashFor" =>
    /\ \A key \in DigestKeys : out[key] # << >> =>
         /\ out[key] \in (0..65535) \X (0..65535)
         /\ out[key][1] \div 256 = md5[key][1]
         /\ out[key][1] % 256 = md5[key][2]
         /\ out[key][2] \div 256 = md5[key][3]
         /\ out[key][2] % 256 = md5[key][4]
    /\ \A k1 \in DigestKeys, k2 \in DigestKeys :
         (out[k1] # << >> /\ out[k2] # << >> /\ SubSeq(md5[k1], 1, 4) = SubSeq(md5[k2], 1, 4))
           => out[k1] = out[k2]
    /\ status # "differ"

\* Both keys are hashed: their digests start 80 00 7f ff (a value above
\* 2^31) and differ in the other twelve bytes.
C18_Witness ==
  /\ prog = "serverHashFor"
  /\ \A key \in DigestKeys : out[key] = <<32768, 32767>>
  /\ \E k1 \in DigestKeys, k2 \in DigestKeys : SubSeq(md5[k1], 5, 16) # SubSeq(md5[k2], 5, 16)
  /\ status = "same"

-----------------------------------------------------------------------------
(* C19: nodes of one name *)

\* The positions of the node list that carry a name.
PositionsOf(name) == { j \in 1..Len(configs) : configs[j].Name = name }

\* How many entries of the point list are the point p.
Occurrences(p) == Cardinality({ i \in 1..Len(r.sortedKeys) : r.sortedKeys[i] = p })

-----------------------------------------------------------------------------
(* C20: binarySearch *)

\* The point list ascends (equal neighbours allowed).
Ascending(sortedKeys) ==
  \A i \in 1..(Len(sortedKeys) - 1) : ~U32Less(sortedKeys[i + 1], sortedKeys[i])

\* C20: on the ascending point list of every ring built, and for the hash of
\* every key, binarySearch returns an index of [-1, len - 1]: -1 exactly when
\* the list is empty or every point is greater than the value, and otherwise
\* the greatest index whose point is <= the value.
C20_BinarySearchGreatestAtOrBelow ==
  CustomBuilt =>
    /\ Ascending(r.sortedKeys)
    /\ \A key \in Keys :
         LET value == ChecksumIEEE(key)
             res == binarySearch(r, value)
         IN  /\ res \in (0 - 1)..(Len(r.sortedKeys) - 1)
             /\ res = 0 - 1 <=> \A p \in PointSet(r.sortedKeys) : U32Greater(p, value)
             /\ res >= 0 =>
                  /\ ~U32Greater(At(r.sortedKeys, res), value)
                  /\ \A i \in (res + 1)..(Len(r.sortedKeys) - 1) :
                       U32Greater(At(r.sortedKeys, i), value)

\* A ring of four points, two by two equal, has been built and searched: one
\* key hash is below every point, and one selects the second of two equal
\* points with a greater point after it.
C20_Witness ==
  /\ CustomBuilt
  /\ Len(r.sortedKeys) = 4
  /\ Cardinality(PointSet(r.sortedKeys)) = 2
  /\ \A key \in Keys : Looked(key)
  /\ \E key \in Keys : binarySearch(r, ChecksumIEEE(key)) = 0 - 1
  /\ \E key \in Keys :
       /\ binarySearch(r, ChecksumIEEE(key)) = 1
       /\ At(r.sortedKeys, 0) = At(r.sortedKeys, 1)
       /\ U32Greater(At(r.sortedKeys, 2), ChecksumIEEE(key))

-----------------------------------------------------------------------------
(* normalizeForGoRedis and go-redis' hashtag.Key over keys *)

\* Longest key normalized.
MaxKeyLen == 4

\* The bytes of a key: '{', '}' and 'a'.
KeyBytes == {123, 125, 97}

\* Every key of at most MaxKeyLen bytes.
AllKeys == UNION { [1..n -> KeyBytes] : n \in 0..MaxKeyLen }

\* hashtag.Key(key) of go-redis, as the documentation quotes it.
Key(key) ==
  LET s == IndexByte(key, 123)
  IN  IF s > 0 - 1
      THEN LET e == IndexByte(SubSeq(key, s + 2, Len(key)), 125)
           IN  IF e > 0 THEN SubSeq(key, s + 2, s + e + 1) ELSE key
      ELSE key

\* A key on its way to the ConsistentHash: nothing is normalized yet.
NormInit ==
  /\ prog = "normalize"
  /\ call \in AllKeys
  /\ out = [mirror |-> {}, library |-> {}, again |-> {}]
  /\ configs = << >>
  /\ replicas = 0
  /\ md5 = << >>
  /\ status = "new"
  /\ r = EmptyRing(0)
  /\ h = EmptyStyleHash(0)
  /\ rb = [replicas |-> 0, ring |-> EmptyMap, nodes |-> << >>, sorted_keys |-> << >>]
  /\ returned = [key \in Keys |-> {}]
  /\ shards = [key \in Keys |-> {}]
  /\ hashed = [key \in Keys |-> {}]
  /\ g = << >>
  /\ rr = << >>
  /\ intSize = 0
  /\ closed = << >>

\* What normalizing leaves alone: everything but out.
NormFrame ==
  UNCHANGED <<prog, configs, replicas, md5, status, r, h, rb, returned, shards,
              hashed, g, rr, intSize, call, closed>>

\* go-ring-consistenthash: normalized := normalizeForGoRedis(key).
NormMirror ==
  /\ prog = "normalize"
  /\ out.mirror = {}
  /\ out' = [out EXCEPT !.mirror = {normalizeForGoRedis(call)}]
  /\ NormFrame

\* go-redis: hashtag.Key(key) on the command routing path.
NormLibrary ==
  /\ prog = "normalize"
  /\ out.library = {}
  /\ out' = [out EXCEPT !.library = {Key(call)}]
  /\ NormFrame

\* The normalized key is normalized once more before ConsistentHash.Get.
NormAgain ==
  /\ prog = "normalize"
  /\ out.mirror # {}
  /\ out.again = {}
  /\ out' = [out EXCEPT !.again = { normalizeForGoRedis(k) : k \in out.mirror }]
  /\ NormFrame

NormNext ==
  \/ NormMirror
  \/ NormLibrary
  \/ NormAgain

SpecNorm == NormInit /\ [][NormNext]_vars

\* The positions (1-based) of byte c in key.
PositionsOfByte(key, c) == { i \in 1..Len(key) : key[i] = c }

\* The least position of a non-empty set of positions.
First(S) == CHOOSE i \in S : \A j \in S : i <= j

\* The tag of a key: the bytes strictly between the first '{' and the first
\* '}' after it when there are such bytes, the key itself otherwise.
TagOf(key) ==
  IF PositionsOfByte(key, 123) = {} THEN key
  ELSE LET open == First(PositionsOfByte(key, 123))
           closes == { i \in PositionsOfByte(key, 125) : i > open }
       IN  IF closes = {} THEN key
           ELSE IF First(closes) = open + 1 THEN key
           ELSE SubSeq(key, open + 1, First(closes) - 1)

\* C21: for every key, normalizeForGoRedis returns the bytes strictly between
\* the first '{' and the first '}' after it when there are any, and the key
\* unchanged when it has no '{', no '}' after the first '{', or "{}" there;
\* hashtag.Key of go-redis returns the same.
C21_MirrorsHashtagKey ==
  prog = "normalize" =>
    /\ \A k \in out.mirror : k = TagOf(call)
    /\ \A k \in out.mirror : \A l \in out.library : k = l

\* Both functions have run on "{}a}": an empty tag, then a later '}'.
C21_Witness ==
  /\ prog = "normalize"
  /\ call = <<123, 125, 97, 125>>
  /\ out.mirror = {call}
  /\ out.library = {call}

\* C30: normalizing a normalized key changes nothing: for every key,
\* normalizeForGoRedis(normalizeForGoRedis(key)) = normalizeForGoRedis(key),
\* and an extracted tag contains no '}'.
C30_NormalizeIdempotent ==
  prog = "normalize" =>
    /\ out.again # {} => out.again = out.mirror
    /\ \A k \in out.mirror : k # call => PositionsOfByte(k, 125) = {}

\* "{{a}" has been normalized twice: its tag "{a" still has a '{', and stays.
C30_Witness ==
  /\ prog = "normalize"
  /\ call = <<123, 123, 97, 125>>
  /\ out.mirror = { <<123, 97>> }
  /\ out.again = { <<123, 97>> }

-----------------------------------------------------------------------------
(* C22: health-aware replica selection *)

\* The replicas of the node the last call resolved, in configured order.
CallReplicas == rr.nodes[CallNode].replicas

\* The positions of the resolved node's replicas that answered PING.
HealthyPositions == { i \in 1..Len(CallReplicas) : CallReplicas[i] \in call.healthy }

\* C22: for a resolved shard, getHealthyReplicaClient returns the first
\* replica in configured order that is healthy; it returns the shard's
\* primary exactly when no replica is healthy (none configured included),
\* and never a replica that is not healthy.
C22_FirstHealthyReplica ==
  (ReplBuilt /\ call.op = "getHealthyReplicaClient" /\ CallNode # Nil) =>
    /\ ~call.panic
    /\ HealthyPositions # {} => call.client = CallReplicas[First(HealthyPositions)]
    /\ call.client = rr.nodes[CallNode].primary <=> HealthyPositions = {}
    /\ call.client \in ResolvedReplicas(rr, call.key) => call.client \in call.healthy

\* The resolved node has two replicas, the first unhealthy and the second
\* healthy, and the second was returned.
C22_Witness ==
  /\ ReplBuilt /\ call.op = "getHealthyReplicaClient" /\ CallNode # Nil
  /\ Len(CallReplicas) = 2
  /\ HealthyPositions = {2}
  /\ call.client = CallReplicas[2]

-----------------------------------------------------------------------------
(* scripts/compare_results.rb *)

\* Longest assignment list compared.
MaxAssignments == 2

\* Largest --limit given.
MaxLimit == 2

\* Assignments of a file: a key with the shard a router chose for it.
Assignments == [key : {"k1", "k2"}, shard : {"cache-a", "cache-b"}]

\* Assignment lists of a file.
AssignmentLists == UNION { [1..n -> Assignments] : n \in 0..MaxAssignments }

\* No comparison file has been written.
NoFile == << >>

\* Array#first(n) for n >= 0 (a negative n raises ArgumentError).
RubyFirst(ary, n) == SubSeq(ary, 1, IF n < Len(ary) THEN n ELSE Len(ary))

\* Fault: a position matches when the shards agree, whatever the keys.
comparePairShardOnly(base, cand) == base.shard = cand.shard

\* The test of the each block: base['key'] == cand['key'] && base['shard'] == cand['shard'].
comparePair(base, cand) == base.key = cand.key /\ base.shard = cand.shard

RECURSIVE compareEach(_, _, _)
\* data.each over the pairs i, i+1, ... of baseline.zip(candidate) (lists of
\* one length): acc holds matches and mismatches so far.
compareEach(baseline, candidate, acc) ==
  IF Len(baseline) = 0 THEN acc
  ELSE LET base == Head(baseline)
           cand == Head(candidate)
       IN  compareEach(Tail(baseline), Tail(candidate),
             IF comparePair(base, cand)
             THEN [acc EXCEPT !.matches = @ + 1]
             ELSE [acc EXCEPT !.mismatches =
                     Append(@, [key |-> base.key, baseline_shard |-> base.shard,
                                candidate_shard |-> cand.shard])])

\* (matches.to_f / total).round(6), in millionths.
MatchRate(matches, total) ==
  IF total = 0 THEN 0 ELSE (2 * 1000000 * matches + total) \div (2 * total)

\* The output hash of compare_results.rb (without the two meta entries).
compareOutput(baseline, candidate, limit) ==
  LET acc == compareEach(baseline, candidate, [matches |-> 0, mismatches |-> << >>])
      total == Len(baseline)
  IN  [total_keys |-> total,
       matches |-> acc.matches,
       mismatches |-> Len(acc.mismatches),
       match_rate |-> MatchRate(acc.matches, total),
       mismatch_examples |-> RubyFirst(acc.mismatches, limit)]

\* compare_results.rb is started on two assignment files, with or without
\* --candidate, with a --limit; no comparison file exists.
CompareInit ==
  /\ prog = "compare_results"
  /\ call \in [baseline : AssignmentLists, candidate : AssignmentLists,
                given : BOOLEAN, limit : (0 - 1)..MaxLimit]
  /\ out = NoFile
  /\ status = "new"
  /\ configs = << >>
  /\ replicas = 0
  /\ md5 = << >>
  /\ r = EmptyRing(0)
  /\ h = EmptyStyleHash(0)
  /\ rb = [replicas |-> 0, ring |-> EmptyMap, nodes |-> << >>, sorted_keys |-> << >>]
  /\ returned = [key \in Keys |-> {}]
  /\ shards = [key \in Keys |-> {}]
  /\ hashed = [key \in Keys |-> {}]
  /\ g = << >>
  /\ rr = << >>
  /\ intSize = 0
  /\ closed = << >>

\* What compare_results.rb leaves alone.
CompareFrame ==
  UNCHANGED <<prog, configs, replicas, md5, r, h, rb, returned, shards, hashed,
              g, rr, intSize, call, closed>>

\* Fault: the script without its check of the two sizes: zip pairs the
\* baseline with as many candidate entries and pads with nil, on which
\* cand['key'] raises.
CompareNoSizeCheck ==
  /\ prog = "compare_results"
  /\ status = "new"
  /\ IF ~call.given \/ Len(call.baseline) > Len(call.candidate) \/ call.limit < 0
     THEN status' = "error" /\ UNCHANGED out
     ELSE /\ status' = "written"
          /\ out' = compareOutput(call.baseline,
                                  SubSeq(call.candidate, 1, Len(call.baseline)), call.limit)
  /\ CompareFrame

\* The script from its argument check to File.write: it raises when
\* --candidate is missing, when the sizes differ, and in first(limit) for a
\* negative limit, and writes the comparison file otherwise.
Compare ==
  /\ prog = "compare_results"
  /\ status = "new"
  /\ IF ~call.given \/ Len(call.baseline) # Len(call.candidate) \/ call.limit < 0
     THEN status' = "error" /\ UNCHANGED out
     ELSE /\ status' = "written"
          /\ out' = compareOutput(call.baseline, call.candidate, call.limit)
  /\ CompareFrame

CompareNext == Compare

SpecCompare == CompareInit /\ [][CompareNext]_vars

\* The positions at which baseline and candidate disagree on key or shard.
Disagreements ==
  { i \in 1..Len(call.baseline) :
      call.baseline[i].key # call.candidate[i].key
        \/ call.baseline[i].shard # call.candidate[i].shard }

\* The i-th (1-based) least element of a set of positions.
RECURSIVE Nth(_, _)
Nth(S, i) == IF i = 1 THEN First(S) ELSE Nth(S \ {First(S)}, i - 1)

\* C23: in every comparison file written, matches is the number of
\* positions at which baseline and candidate agree on key and shard,
\* matches + mismatches = total_keys = the length of both lists, match_rate
\* is 0.0 for empty lists (and 1.0 exactly when everything matches), and
\* mismatch_examples holds the first min(limit, mismatches) disagreeing
\* positions in input order, with the baseline's key and both shards.
C23_CompareCounts ==
  (prog = "compare_results" /\ status = "written") =>
    /\ out.total_keys = Len(call.baseline)
    /\ out.total_keys = Len(call.candidate)
    /\ out.mismatches = Cardinality(Disagreements)
    /\ out.matches + out.mismatches = out.total_keys
    /\ out.total_keys = 0 => out.match_rate = 0
    /\ out.total_keys > 0 => (out.match_rate = 1000000 <=> out.mismatches = 0)
    /\ Len(out.mismatch_examples) =
         (IF call.limit < out.mismatches THEN call.limit ELSE out.mismatches)
    /\ \A i \in 1..Len(out.mismatch_examples) :
         LET pos == Nth(Disagreements, i)
         IN  out.mismatch_examples[i] =
               [key |-> call.baseline[pos].key,
                baseline_shard |-> call.baseline[pos].shard,
                candidate_shard |-> call.candidate[pos].shard]

\* Two lists of two assignments were compared with limit 1: the first
\* position differs in the key only, the second in the shard.
C23_Witness ==
  /\ prog = "compare_results" /\ status = "written"
  /\ Len(call.baseline) = 2
  /\ call.limit = 1
  /\ call.baseline[1].key # call.candidate[1].key
  /\ call.baseline[1].shard = call.candidate[1].shard
  /\ call.baseline[2].key = call.candidate[2].key
  /\ call.baseline[2].shard # call.candidate[2].shard
  /\ out.mismatches = 2
  /\ Len(out.mismatch_examples) = 1

\* C24: when --candidate is not given or the two assignment lists differ in
\* length, compare_results ends with an error and no comparison file is
\* written; a file that is written pairs every entry of both lists.
C24_CompareRejects ==
  (prog = "compare_results" /\ status # "new") =>
    /\ (~call.given \/ Len(call.baseline) # Len(call.candidate)) =>
         status = "error" /\ out = NoFile
    /\ status = "written" =>
         out.total_keys = Len(call.baseline) /\ out.total_keys = Len(call.candidate)

\* The script has ended with an error on a candidate list longer than the
\* baseline, --candidate given.
C24_Witness ==
  /\ prog = "compare_results" /\ status = "error"
  /\ call.given /\ call.limit >= 0
  /\ Len(call.candidate) > Len(call.baseline)
  /\ Len(call.baseline) > 0
  /\ out = NoFile

-----------------------------------------------------------------------------
(* scripts/generate_keys.rb, without and with its --no-hashtags option *)

\* Largest --count given.
MaxCount == 26

\* Every TagEvery-th key carries a hash tag: (i % 25).zero?.
TagEvery == 25

\* The two copies of the script: the one without the --no-hashtags option
\* and the one with it.
Versions == {"plain", "with-no-hashtags"}

\* Prefixes given with --prefix, as pieces of text: "user" and "u{x}".
Prefixes == { <<"user">>, <<"u", "{", "x", "}">> }

\* rng.bytes(8).unpack1('H*') for key i under a seed: sixteen hex digits.
Token(seed, i) == IF seed = 1337 THEN "a1b2c3d4e5f60718" ELSE "00ff00ff00ff00ff"

\* options[:hashtags] after parse!: the plain copy has no such option and
\* always injects.
Hashtags(opts) == IF opts.version = "plain" THEN TRUE ELSE ~opts.noHashtags

\* Fault: the block of Array.new ignores options[:hashtags].
generateKeyAlwaysTagged(opts, i) ==
  IF i % TagEvery = 0
  THEN opts.prefix \o <<":", "{", "tag" \o ToString(i), "}", ":", Token(opts.seed, i)>>
  ELSE opts.prefix \o <<":", ToString(i), ":", Token(opts.seed, i)>>

\* The block of Array.new: the key at index i, as pieces of text.
generateKey(opts, i) ==
  IF Hashtags(opts) /\ i % TagEvery = 0
  THEN opts.prefix \o <<":", "{", "tag" \o ToString(i), "}", ":", Token(opts.seed, i)>>
  ELSE opts.prefix \o <<":", ToString(i), ":", Token(opts.seed, i)>>

\* keys = Array.new(options[:count]) { |i| ... } for a count >= 0.
generateKeys(opts) == [j \in 1..opts.count |-> generateKey(opts, j - 1)]

\* generate_keys.rb is started with its options; nothing is written yet.
GenerateInit ==
  /\ prog = "generate_keys"
  /\ call \in [version : Versions, count : (0 - 1)..MaxCount, prefix : Prefixes,
                noHashtags : BOOLEAN, seed : {1337, 7}]
  /\ out = NoFile
  /\ status = "new"
  /\ configs = << >>
  /\ replicas = 0
  /\ md5 = << >>
  /\ r = EmptyRing(0)
  /\ h = EmptyStyleHash(0)
  /\ rb = [replicas |-> 0, ring |-> EmptyMap, nodes |-> << >>, sorted_keys |-> << >>]
  /\ returned = [key \in Keys |-> {}]
  /\ shards = [key \in Keys |-> {}]
  /\ hashed = [key \in Keys |-> {}]
  /\ g = << >>
  /\ rr = << >>
  /\ intSize = 0
  /\ closed = << >>

\* The script from parse! to File.write: parse! raises on --no-hashtags in
\* the copy without that option, Array.new raises on a negative count.
Generate ==
  /\ prog = "generate_keys"
  /\ status = "new"
  /\ IF (call.version = "plain" /\ call.noHashtags) \/ call.count < 0
     THEN status' = "error" /\ UNCHANGED out
     ELSE /\ status' = "written"
          /\ out' = [count |-> call.count, prefix |-> call.prefix, keys |-> generateKeys(call)]
  /\ UNCHANGED <<prog, configs, replicas, md5, r, h, rb, returned, shards, hashed,
                 g, rr, intSize, call, closed>>

GenerateNext == Generate

SpecGenerate == GenerateInit /\ [][GenerateNext]_vars

\* A key, as pieces of text, contains a brace.
HasBrace(key) == \E i \in 1..Len(key) : key[i] \in {"{", "}"}

\* The pieces of a key after the prefix.
AfterPrefix(key) == SubSeq(key, Len(call.prefix) + 1, Len(key))

-----------------------------------------------------------------------------
(* experiments/run_experiment.sh: the commands of one run after another,    *)
(* under set -euo pipefail, over the files of the artifacts directory.      *)
(* The echo lines write no file and are left out.                           *)

\* Largest number of runs of the script over the same artifacts directory.
MaxRuns == 2

\* The commands of the script in the order of its lines.
StepOrder ==
  <<"cd", "mkdir", "rm", "bundle", "generate_keys", "ruby_ring", "go-ring-default",
    "go-ring-consistenthash", "go-ring-custom", "compare_default",
    "compare_consistent", "compare_custom">>

\* The JSON files the script names under $ARTIFACT_DIR.
ArtifactFiles ==
  {"keys.json", "ruby_assignments.json", "go_default_assignments.json",
   "go_consistent_assignments.json", "go_custom_assignments.json",
   "comparison_default.json", "comparison_consistent.json", "comparison_custom.json"}

\* The command after a command, "done" after the last one.
NextStep(step) ==
  LET i == CHOOSE j \in 1..Len(StepOrder) : StepOrder[j] = step
  IN  IF i = Len(StepOrder) THEN "done" ELSE StepOrder[i + 1]

\* --output of a command.
OutputOf(step) ==
  CASE step = "generate_keys" -> "keys.json"
    [] step = "ruby_ring" -> "ruby_assignments.json"
    [] step = "go-ring-default" -> "go_default_assignments.json"
    [] step = "go-ring-consistenthash" -> "go_consistent_assignments.json"
    [] step = "go-ring-custom" -> "go_custom_assignments.json"
    [] step = "compare_default" -> "comparison_default.json"
    [] step = "compare_consistent" -> "comparison_consistent.json"
    [] step = "compare_custom" -> "comparison_custom.json"

\* --keys, or --baseline and --candidate, of a command.
InputsOf(step) ==
  CASE step = "generate_keys" -> << >>
    [] step \in {"ruby_ring", "go-ring-default", "go-ring-consistenthash", "go-ring-custom"}
         -> <<"keys.json">>
    [] step = "compare_default" -> <<"ruby_assignments.json", "go_default_assignments.json">>
    [] step = "compare_consistent" -> <<"ruby_assignments.json", "go_consistent_assignments.json">>
    [] step = "compare_custom" -> <<"ruby_assignments.json", "go_custom_assignments.json">>

\* What a file holds: the run that wrote it, whether it is whole, and what
\* the files read for it held.
Content(run, kind, from) == [run |-> run, kind |-> kind, from |-> from]

\* A file a program can parse: it exists and was written whole.
Readable(dir, file) == dir[file] # NoFile /\ dir[file].kind # "partial"

\* Fault: the script runs without set -e, a failing command is followed by
\* the next one.
ExitIgnored(ok, next) == next

\* set -e: the script goes on after a command that succeeded and exits
\* after one that failed.
Exit(ok, next) == IF ok THEN next ELSE "failed"

\* The first run starts on an artifacts directory without JSON files.
ExperimentInit ==
  /\ prog = "run_experiment.sh"
  /\ status = "cd"
  /\ call = [run |-> 1, log |-> << >>, before |-> [f \in ArtifactFiles |-> NoFile]]
  /\ out = [f \in ArtifactFiles |-> NoFile]
  /\ configs = << >>
  /\ replicas = 0
  /\ md5 = << >>
  /\ r = EmptyRing(0)
  /\ h = EmptyStyleHash(0)
  /\ rb = [replicas |-> 0, ring |-> EmptyMap, nodes |-> << >>, sorted_keys |-> << >>]
  /\ returned = [key \in Keys |-> {}]
  /\ shards = [key \in Keys |-> {}]
  /\ hashed = [key \in Keys |-> {}]
  /\ g = << >>
  /\ rr = << >>
  /\ intSize = 0
  /\ closed = << >>

ExperimentFrame ==
  UNCHANGED <<prog, configs, replicas, md5, r, h, rb, returned, shards, hashed,
              g, rr, intSize, closed>>

\* A command has run with exit status ok: the script goes on or exits.
Ran(step, ok) ==
  /\ status' = Exit(ok, NextStep(step))
  /\ call' = [call EXCEPT !.log = Append(@, <<step, ok>>)]

\* Lines 4-7, 11, 15-16: cd, mkdir -p and bundle touch no JSON file.
ShPlain(ok) ==
  /\ prog = "run_experiment.sh"
  /\ status \in {"cd", "mkdir", "bundle"}
  /\ Ran(status, ok)
  /\ UNCHANGED out
  /\ ExperimentFrame

\* Line 12: rm -f "$ARTIFACT_DIR"/*.json removes every JSON file; when it
\* fails it has removed the files it could, or none.
ShRm(ok, removed) ==
  /\ prog = "run_experiment.sh"
  /\ status = "rm"
  /\ Ran("rm", ok)
  /\ out' = IF ok \/ removed THEN [f \in ArtifactFiles |-> NoFile] ELSE out
  /\ ExperimentFrame

\* Lines 19-49: a program reads its input files and writes its output
\* file. It fails when an input cannot be read, or for a reason of its
\* own; a failing program leaves its output file alone or cut short.
ShProgram(ok, partial) ==
  /\ prog = "run_experiment.sh"
  /\ status \in {"generate_keys", "ruby_ring", "go-ring-default", "go-ring-consistenthash",
                  "go-ring-custom", "compare_default", "compare_consistent",
                  "compare_custom"}
  /\ LET step == status
         inputs == InputsOf(step)
         kind == IF step = "generate_keys" THEN "keys"
                 ELSE IF Len(inputs) = 1 THEN "assignments" ELSE "comparison"
         success == ok /\ \A i \in 1..Len(inputs) : Readable(out, inputs[i])
     IN  /\ Ran(step, success)
         /\ out' = IF success
                      THEN [out EXCEPT ![OutputOf(step)] =
                              Content(call.run, kind, [i \in 1..Len(inputs) |-> out[inputs[i]]])]
                   ELSE IF partial
                      THEN [out EXCEPT ![OutputOf(step)] = Content(call.run, "partial", << >>)]
                   ELSE out
  /\ ExperimentFrame

\* The script is started again over the same artifacts directory.
ShStart ==
  /\ prog = "run_experiment.sh"
  /\ status \in {"done", "failed"}
  /\ call.run < MaxRuns
  /\ status' = "cd"
  /\ call' = [run |-> call.run + 1, log |-> << >>, before |-> out]
  /\ UNCHANGED out
  /\ ExperimentFrame

ExperimentNext ==
  \/ \E ok \in BOOLEAN : ShPlain(ok)
  \/ \E ok, removed \in BOOLEAN : ShRm(ok, removed)
  \/ \E ok, partial \in BOOLEAN : ShProgram(ok, partial)
  \/ ShStart

SpecExperiment == ExperimentInit /\ [][ExperimentNext]_vars

\* The files of the artifacts directory written in the current run.
WrittenThisRun == {f \in ArtifactFiles : out[f] # NoFile /\ out[f].run = call.run}

\* The whole keys.json of a run.
KeysOf(run) == Content(run, "keys", << >>)

\* A whole assignment file of a run, computed from that run's keys.json.
AssignmentsOf(run) == Content(run, "assignments", <<KeysOf(run)>>)

\* C26: the commands of a run are run in the order of the script and none
\* is run after one that failed; once a file is written in a run, rm has
\* succeeded in it and no file of an earlier run is left; an assignment
\* file is written only once this run's keys.json is there; every
\* comparison file written in a run is computed from the baseline and the
\* candidate assignment file of that step as they stand, both written whole
\* in this run from this run's keys.json.
C26_ExperimentOrder ==
  prog = "run_experiment.sh" =>
    /\ \A i \in 1..Len(call.log) : call.log[i][1] = StepOrder[i]
    /\ \A i \in 1..(Len(call.log) - 1) : call.log[i][2]
    /\ WrittenThisRun # {} =>
         /\ Len(call.log) >= 3 /\ call.log[3] = <<"rm", TRUE>>
         /\ \A f \in ArtifactFiles : out[f] # NoFile => out[f].run = call.run
    /\ \A step \in {"ruby_ring", "go-ring-default", "go-ring-consistenthash", "go-ring-custom"} :
         OutputOf(step) \in WrittenThisRun => out["keys.json"] = KeysOf(call.run)
    /\ \A step \in {"compare_default", "compare_consistent", "compare_custom"} :
         (OutputOf(step) \in WrittenThisRun /\ out[OutputOf(step)].kind = "comparison") =>
           /\ out[OutputOf(step)].from = <<out[InputsOf(step)[1]], out[InputsOf(step)[2]]>>
           /\ out[InputsOf(step)[1]] = AssignmentsOf(call.run)
           /\ out[InputsOf(step)[2]] = AssignmentsOf(call.run)

\* A second run has ended with its three comparison files, over a directory
\* in which the first run had left a whole ruby_assignments.json and a
\* comparison file.
C26_Witness ==
  /\ prog = "run_experiment.sh"
  /\ call.run = 2 /\ status = "done"
  /\ call.before["ruby_assignments.json"] = AssignmentsOf(1)
  /\ call.before["comparison_default.json"] # NoFile
  /\ \A step \in {"compare_default", "compare_consistent", "compare_custom"} :
       out[OutputOf(step)].kind = "comparison"

-----------------------------------------------------------------------------
(* The lookup loops of go-ring-default, go-ring-consistenthash and         *)
(* go-ring-custom, from payload.Keys to the assignments written.            *)

\* Largest number of keys in payload.Keys.
MaxKeyList == 3

\* payload.Keys: every list of at most MaxKeyList keys, repeats included.
KeyLists == UNION { [1..n -> Keys] : n \in 0..MaxKeyList }

\* The three Go programs.
GoPrograms == {"go-ring-default", "go-ring-consistenthash", "go-ring-custom"}

\* A Go program has parsed its keys file; its ring is not built. The shard
\* chosen by rendezvousHash.Lookup is any function of the key.
AssignInit ==
  /\ prog \in GoPrograms
  /\ configs \in { << >>, ShardDefs }
  /\ replicas = 1
  /\ md5 \in [VirtualKeys(configs, replicas) -> Digests]
  /\ status = "new"
  /\ r = EmptyRing(0)
  /\ h = EmptyStyleHash(0)
  /\ rb = [replicas |-> 0, ring |-> EmptyMap, nodes |-> << >>, sorted_keys |-> << >>]
  /\ returned = [key \in Keys |-> {}]
  /\ shards = [key \in Keys |-> {}]
  /\ hashed = [key \in Keys |-> {}]
  /\ g = << >>
  /\ rr = << >>
  /\ intSize = 0
  /\ call \in [keys : KeyLists,
                Lookup : IF prog = "go-ring-default" /\ configs # << >>
                         THEN [Keys -> Names] ELSE {[key \in Keys |-> ""]}]
  /\ closed = << >>
  /\ out = << >>

AssignFrame ==
  UNCHANGED <<prog, configs, replicas, md5, r, h, rb, returned, shards, hashed,
              g, rr, intSize, call, closed>>

\* go-ring-default: rendezvousHash := rendezvous.New(shards, xxhash.Sum64String).
AssignNewRendezvous ==
  /\ prog = "go-ring-default"
  /\ status = "new"
  /\ status' = "built"
  /\ UNCHANGED out
  /\ AssignFrame

\* The key the loop is at: the one after those already assigned.
LoopKey == call.keys[Len(out) + 1]

\* go-ring-default: one turn of the loop over payload.Keys.
AssignDefault ==
  /\ prog = "go-ring-default"
  /\ status = "built"
  /\ Len(out) < Len(call.keys)
  /\ out' = Append(out, [Key |-> LoopKey, Shard |-> call.Lookup[LoopKey]])
  /\ UNCHANGED status
  /\ AssignFrame

\* Fault: the assignment carries the normalized key.
AssignConsistentNormalizedKey ==
  /\ prog = "go-ring-consistenthash"
  /\ status = "built"
  /\ Len(out) < Len(call.keys)
  /\ LET normalized == normalizeForGoRedis(LoopKey)
         res == Get(h, normalized)
     IN  IF res.panic
         THEN status' = "panic" /\ UNCHANGED out
         ELSE out' = Append(out, [Key |-> normalized, Shard |-> res.shard]) /\ UNCHANGED status
  /\ AssignFrame

\* go-ring-consistenthash: one turn of the loop over payload.Keys.
AssignConsistent ==
  /\ prog = "go-ring-consistenthash"
  /\ status = "built"
  /\ Len(out) < Len(call.keys)
  /\ LET normalized == normalizeForGoRedis(LoopKey)
         res == Get(h, normalized)
     IN  IF res.panic
         THEN status' = "panic" /\ UNCHANGED out
         ELSE out' = Append(out, [Key |-> LoopKey, Shard |-> res.shard]) /\ UNCHANGED status
  /\ AssignFrame

\* go-ring-custom: one turn of the loop over payload.Keys.
AssignCustom ==
  /\ prog = "go-ring-custom"
  /\ status = "built"
  /\ Len(out) < Len(call.keys)
  /\ LET res == getNode(r, LoopKey)
     IN  IF res.panic
         THEN status' = "panic" /\ UNCHANGED out
         ELSE out' = Append(out, [Key |-> LoopKey, Shard |-> ShardName(r, res.node)])
              /\ UNCHANGED status
  /\ AssignFrame

\* After the loop: out.Assignments = assignments is encoded and written.
AssignWrite ==
  /\ prog \in GoPrograms
  /\ status = "built"
  /\ Len(out) = Len(call.keys)
  /\ status' = "written"
  /\ UNCHANGED out
  /\ AssignFrame

AssignNext ==
  \/ MainNewRubyHashRing
  \/ MainNewRubyStyleHash
  \/ AssignNewRendezvous
  \/ AssignDefault
  \/ AssignConsistent
  \/ AssignCustom
  \/ AssignWrite

SpecAssign == AssignInit /\ [][AssignNext]_vars

\* C27: in each Go program the assignments appended so far carry the keys
\* of payload.Keys at the same positions, unchanged, and the list written
\* has the length of payload.Keys.
C27_OneAssignmentPerKey ==
  prog \in GoPrograms =>
    /\ Len(out) <= Len(call.keys)
    /\ \A i \in 1..Len(out) : out[i].Key = call.keys[i]
    /\ status = "written" => Len(out) = Len(call.keys)

\* go-ring-consistenthash over no shard has written three assignments for
\* "{t}a", "t", "{t}a": the tagged key was normalized before hashing and
\* every key resolved to no shard.
C27_Witness ==
  /\ prog = "go-ring-consistenthash"
  /\ status = "written"
  /\ configs = << >>
  /\ call.keys = << <<123, 116, 125, 97>>, <<116>>, <<123, 116, 125, 97>> >>
  /\ out = [i \in 1..3 |-> [Key |-> call.keys[i], Shard |-> ""]]
  /\ normalizeForGoRedis(call.keys[1]) # call.keys[1]

-----------------------------------------------------------------------------
(* C28, C29: the selectors of the ring with replicas on the empty ring, and *)
(* the replica index of getReplicaClient                                    *)

\* C28: on a ring with no points, a call of getClientForWrite
\* (getPrimaryClient), getClientForRead (getReplicaClient),
\* getHealthyReplicaClient or getRandomReplicaClient returns no client and
\* does not crash.
C28_EmptyRingNoClient ==
  (ReplBuilt /\ Len(rr.sortedKeys) = 0 /\ call.op # "") =>
    ~call.panic /\ call.client = NilClient

\* The replica index getReplicaClient computes for the last call:
\* int(hash) % len(node.replicas).
CallReplicaIndex ==
  IntMod(ChecksumIEEE(call.key), Len(rr.nodes[CallNode].replicas), intSize)

\* C29: when getClientForRead has been called for a key whose node has
\* replicas, the index int(hash) % len(node.replicas) is at least 0 and
\* below len(node.replicas), for an int of 32 and of 64 bits.
C29_ReplicaIndexInRange ==
  (ReplBuilt /\ call.op = "getClientForRead" /\ CallNode # Nil
     /\ Len(rr.nodes[CallNode].replicas) > 0) =>
    /\ CallReplicaIndex >= 0
    /\ CallReplicaIndex < Len(rr.nodes[CallNode].replicas)

====
